---- MODULE Spec2Model ----
(***************************************************************************)
(* A model of team-204/control: main() of control/main.py driving a        *)
(* Controller (control/controller.py) over the dronekit vehicle, with the  *)
(* ground-station link (control/communication.py) and the i2c data client  *)
(* (control/i2cdataclient.py).                                             *)
(*                                                                         *)
(* Lengths are integers in decimetres.  Latitude and longitude are kept in *)
(* "distance units": one unit is the angle that get_distance turns into    *)
(* one decimetre (1 / 1.113195e6 degree), so that get_distance is the      *)
(* Euclidean norm of the two differences and every comparison             *)
(* get_distance(a, b) > d is the exact comparison of the squares.          *)
(* Floating-point results are rounded to the nearest unit.                 *)
(*                                                                         *)
(* The vehicle (mode, armed, is_armable, position) is the environment: it  *)
(* changes between any two steps of the program.                           *)
(***************************************************************************)
EXTENDS Integers, Sequences, FiniteSets, TLC

VARIABLES
    pc,          \* the statement of main() / Controller the program is at
    sent,        \* status frames written by com.send, oldest first
    frames,      \* telemetry frames sent during the current waypoint wait
    waypoints,   \* the flight plan received from the GCS (<<>> before)
    start_location, \* main.py:160, None before
    points,      \* the LocationGlobalRelative list of main() (<<>> for None)
    home,        \* Controller.home, None until arm() sets it
    index,       \* position of `point` in `points` (the outer for loop)
    sleep_time,  \* the inner for loop's variable, range(60)
    gotos,       \* the targets of the simple_goto commands issued, in order
    landRet,     \* where the running land() returns to
    breach,      \* what check_geofence reported (logger.critical) in this tick
    forced,      \* where check_geofence last called land() from ("none" before)
    overrideSeen, \* the program has read a mode other than GUIDED in flight
    mode,        \* vehicle.mode.name
    armed,       \* vehicle.armed
    armReq,      \* the program has written vehicle.armed = True
    is_armable,  \* vehicle.is_armable
    pos,         \* vehicle.location.global_relative_frame
    wire,        \* the serial line read by Communication.receive, oldest first
    socket,      \* I2cDataClient's socket: requests sent, responses awaited
    ser,         \* the serial line read by Gps.read, oldest sentence first
    call         \* the library call made last, with its argument and outcome

vars == <<pc, sent, frames, waypoints, start_location, points, home, index,
          sleep_time, gotos, landRet, breach, forced, overrideSeen, mode,
          armed, armReq, is_armable, pos, wire, socket, ser, call>>

\* what only the program writes
progVars == <<pc, sent, frames, waypoints, start_location, points, home,
              index, sleep_time, gotos, landRet, breach, forced, overrideSeen>>

\* what the vehicle reports
vehicleVars == <<mode, armed, is_armable, pos>>

\* the serial line, the data-server socket and the calls of the library
\* functions taken on their own (LibSpec)
libVars == <<wire, socket, ser, call>>

-----------------------------------------------------------------------------
(* Bounds of the model *)

\* the longest flight plan the ground station sends where only the planning
\* is followed (PlanSpec)
MaxPlan == 2

\* the longest flight plan the ground station sends where the flight is
\* followed (Spec)
MaxFlightPlan == 1

\* the calls of I2cDataClient.read counted on the socket (LibSpec)
MaxReads == 3

\* the lines the ground station has on the serial line at a time
MaxLines == 2

\* the sentences the GPS receiver has on its serial line at a time
MaxSentences == 5

\* the bits of the significand of the model's floats, where the code's have
\* 53: coordinates below 2^Significand units, those of the flights among
\* them, are exact
Significand == 20

-----------------------------------------------------------------------------
(* Program constants *)

MAX_RADIUS == 250
MAX_ALTITUDE == 50
MIN_ALTITUDE == 3

\* main.py:170, vehicle_control.takeoff(10)
TAKEOFF_ALTITUDE == 10

\* main.py:189, range(60)
WAIT_TICKS == 60

\* main.py:202, the looser runtime envelope
RUNTIME_MARGIN == 10

\* controller.py:73, check_geofence(10, target_altitude + 10)
TAKEOFF_RADIUS == 10

None == [none |-> TRUE]

\* metres to decimetres
DM(m) == m * 10

Sq(n) == n * n

\* a / b rounded to the nearest integer (b > 0), the rounding of a float result
RoundDiv(a, b) == (2 * a + b) \div (2 * b)

Abs(n) == IF n < 0 THEN 0 - n ELSE n

RECURSIVE Pow2(_)
Pow2(n) == IF n = 0 THEN 1 ELSE 2 * Pow2(n - 1)

\* the size from which the floats are more than one unit apart
Exact == Pow2(Significand)

\* the spacing of the floats around x
RECURSIVE Ulp(_)
Ulp(x) == IF Abs(x) < Exact THEN 1 ELSE 2 * Ulp(Abs(x) \div 2)

\* a float result cut off towards minus infinity
FlTruncate(x) == (x \div Ulp(x)) * Ulp(x)

\* the float a result is stored as: the nearest one, the even one of two
\* nearest
Fl(x) ==
    LET u == Ulp(x)
        q == x \div u
        r == x - (q * u)
    IN  IF 2 * r < u THEN q * u
        ELSE IF 2 * r > u THEN (q + 1) * u
        ELSE IF q % 2 = 0 THEN q * u
        ELSE (q + 1) * u

\* 1.113195e5 * 180 / (pi * EARTH_RADIUS) = 1.00112: distance units per
\* decimetre of north offset, as the fraction 6257 / 6250
UnitsPerDm == <<6257, 6250>>

\* cos(pi * origin.latitude / 180) as a fraction: the flights are at 60 N
CosLatitude == <<1, 2>>

-----------------------------------------------------------------------------
(* control/helper.py and control/gps.py *)

GpsReading(latitude, longitude, altitude, time) ==
    [latitude |-> latitude, longitude |-> longitude,
     altitude |-> altitude, time |-> time]

LocationGlobalRelative(lat, lon, alt) == [lat |-> lat, lon |-> lon, alt |-> alt]

location_global_relative_to_gps_reading(global_relative) ==
    GpsReading(global_relative.lat, global_relative.lon, global_relative.alt, 0)

gps_reading_to_location_global(gps_reading) ==
    LocationGlobalRelative(gps_reading.latitude, gps_reading.longitude,
                           gps_reading.altitude)

get_location_offset(origin, north_offset, east_offset) ==
    LET new_lat == Fl(origin.latitude
                      + RoundDiv(north_offset * UnitsPerDm[1], UnitsPerDm[2]))
        new_lon == Fl(origin.longitude
                      + RoundDiv(east_offset * UnitsPerDm[1] * CosLatitude[2],
                                 UnitsPerDm[2] * CosLatitude[1]))
    IN  GpsReading(new_lat, new_lon, origin.altitude, 0)

get_relative_from_location(origin, point) ==
    LET x == RoundDiv((point.longitude - origin.longitude)
                          * UnitsPerDm[2] * CosLatitude[1],
                      UnitsPerDm[1] * CosLatitude[2])
        y == RoundDiv((point.latitude - origin.latitude) * UnitsPerDm[2],
                      UnitsPerDm[1])
    IN  <<x, y>>

\* get_distance squared, in square decimetres: get_distance(a, b) > d is
\* get_distance_sq(a, b) > Sq(d)
get_distance_sq(reading_1, reading_2) ==
    LET lat_diff == reading_1.latitude - reading_2.latitude
        lon_diff == reading_1.longitude - reading_2.longitude
    IN  (lat_diff * lat_diff) + (lon_diff * lon_diff)

-----------------------------------------------------------------------------
(* control/gps.py: Gps.read *)

\* a line of the GPS receiver: an NMEA sentence of a type, with the values
\* pynmea2 gives for its fields, or a line pynmea2.parse raises ParseError for
Sentence(type, latitude, longitude, altitude, timestamp) ==
    [type |-> type, latitude |-> latitude, longitude |-> longitude,
     altitude |-> altitude, timestamp |-> timestamp]

\* what readline() returns when its timeout of 1 s ends with nothing read
NoLine == Sentence("empty", "", "", "", "")

\* pynmea2.parse raises ParseError for the line
ParseError(line) == line.type \in {"corrupt", "empty"}

\* a loop that is content with any sentence that parses
IsSentence(msg) == ~ParseError(msg)

\* isinstance(msg, pynmea2.GGA), line 103
IsGGA(msg) == msg.type = "GGA"

\* a test that gives one more attempt
LastAttemptLate(attempt) == attempt > 4

\* attempt == max_tries, line 106, with max_tries = 4
LastAttempt(attempt) == attempt = 4

\* GpsReadError('max number of parse attempts reached', attempt)
GpsReadError(attempt, consumed) ==
    [kind |-> "GpsReadError", attempt |-> attempt, consumed |-> consumed,
     reading |-> GpsReading("", "", "", "")]

\* the return of line 112
GpsReturn(msg, consumed) ==
    [kind |-> "reading", attempt |-> 0, consumed |-> consumed,
     reading |-> GpsReading(msg.latitude, msg.longitude, msg.altitude,
                            msg.timestamp)]

\* the line the next readline() returns, `consumed` lines having been read
NextLine(stream, consumed) ==
    IF consumed < Len(stream) THEN stream[consumed + 1] ELSE NoLine

\* lines 101-111 from the readline() of an attempt on: a ParseError ends the
\* attempt, and the last attempt raises; a sentence that is no GGA is read
\* over within the attempt
RECURSIVE Gps_read_from(_, _, _)
Gps_read_from(stream, consumed, attempt) ==
    LET line == NextLine(stream, consumed)
    IN  IF ParseError(line)
          THEN IF LastAttempt(attempt)
                 THEN GpsReadError(attempt, consumed + 1)
                 ELSE Gps_read_from(stream, consumed + 1, attempt + 1)
        ELSE IF IsGGA(line)
          THEN GpsReturn(line, consumed + 1)
        ELSE Gps_read_from(stream, consumed + 1, attempt)

\* Gps.read(), lines 97-113, on the lines the serial line holds
Gps_read(stream) == Gps_read_from(stream, 0, 1)

-----------------------------------------------------------------------------
(* control/i2cdataclient.py *)

\* what recv() comes to: zmq.error.Again after RCVTIMEO, or the data string,
\* kept as its words (the pieces between single spaces)
Response(timeout, words) == [timeout |-> timeout, words |-> words]

\* a match that is content with the first label
ReMatchLoose(words) ==
    IF Len(words) >= 2 /\ words[1] = "Temperature:"
      THEN [none |-> FALSE,
            group |-> <<words[2], IF Len(words) >= 4 THEN words[4] ELSE "">>]
      ELSE [none |-> TRUE, group |-> <<>>]

\* re.match(r'Temperature: (\S+) Altitude: (\S+)', data_string): the groups
\* of the match, or None.  The pattern matches a prefix of the string.
ReMatch(words) ==
    IF /\ Len(words) >= 4
       /\ words[1] = "Temperature:" /\ words[2] # ""
       /\ words[3] = "Altitude:" /\ words[4] # ""
      THEN [none |-> FALSE, group |-> <<words[2], words[4]>>]
      ELSE [none |-> TRUE, group |-> <<>>]

\* I2cDataClient.read, lines 39-47, after the request is sent: the dictionary
\* returned, or None returned (the except clause ends the function), or the
\* AttributeError of match.group on a match that is None
read(response) ==
    IF response.timeout
      THEN [kind |-> "none"]
    ELSE LET match == ReMatch(response.words)
         IN  IF match.none
               THEN [kind |-> "raise", error |-> "AttributeError"]
               ELSE [kind |-> "data",
                     data |-> [temperature |-> match.group[1],
                               altitude |-> match.group[2]]]

-----------------------------------------------------------------------------
(* control/communication.py: the values and their JSON text *)

\* Python values as json knows them.  A text is the sequence of its
\* characters; a dict is the sequence of its entries, each a key and a value.
PyNone == [kind |-> "none", s |-> <<>>, n |-> 0, items |-> <<>>]
PyStr(chars) == [kind |-> "str", s |-> chars, n |-> 0, items |-> <<>>]
PyInt(n) == [kind |-> "int", s |-> <<>>, n |-> n, items |-> <<>>]
PyList(items) == [kind |-> "list", s |-> <<>>, n |-> 0, items |-> items]
PyEntry(key, value) == [kind |-> "entry", s |-> key, n |-> 0, items |-> <<value>>]
PyDict(entries) == [kind |-> "dict", s |-> <<>>, n |-> 0, items |-> entries]

\* a test that takes only None for no message
FalsyNoneOnly(value) == value.kind = "none"

\* `not value`
Falsy(value) ==
    \/ value.kind = "none"
    \/ value.kind = "int" /\ value.n = 0
    \/ value.kind = "str" /\ value.s = <<>>
    \/ value.kind \in {"list", "dict"} /\ value.items = <<>>

\* the bytes on the serial line, in pieces: the line break, the quote of a
\* text, a plain character, an escaped character, a number, null, the
\* punctuation of JSON, and a byte that belongs to no JSON text
Tok(t, c, n) == [t |-> t, c |-> c, n |-> n]
Mark(t) == Tok(t, "", 0)
NL == Mark("nl")

\* the characters json.dumps writes escaped
Escaped == {"LF", "QUOTE", "BACKSLASH"}

\* the i-th and later characters of a text, as json.dumps writes them
RECURSIVE dumps_chars(_, _)
dumps_chars(chars, i) ==
    IF i > Len(chars) THEN <<>>
    ELSE <<Tok(IF chars[i] \in Escaped THEN "esc" ELSE "char", chars[i], 0)>>
           \o dumps_chars(chars, i + 1)

\* json.dumps(data), line 21
RECURSIVE dumps(_)
RECURSIVE dumps_items(_, _)
dumps_items(items, i) ==
    IF i > Len(items) THEN <<>>
    ELSE (IF i > 1 THEN <<Mark(",")>> ELSE <<>>)
           \o (IF items[i].kind = "entry"
                 THEN <<Mark("quote")>> \o dumps_chars(items[i].s, 1)
                        \o <<Mark("quote"), Mark(":")>>
                        \o dumps(items[i].items[1])
                 ELSE dumps(items[i]))
           \o dumps_items(items, i + 1)

dumps(data) ==
    IF data.kind = "str"
      THEN <<Mark("quote")>> \o dumps_chars(data.s, 1) \o <<Mark("quote")>>
    ELSE IF data.kind = "int" THEN <<Tok("num", "", data.n)>>
    ELSE IF data.kind = "list"
      THEN <<Mark("[")>> \o dumps_items(data.items, 1) \o <<Mark("]")>>
    ELSE IF data.kind = "dict"
      THEN <<Mark("{")>> \o dumps_items(data.items, 1) \o <<Mark("}")>>
    ELSE <<Mark("null")>>

\* the outcome of parsing from a place of the text: the value and the place
\* after it, or the ValueError
Parsed(value, next) == [ok |-> TRUE, value |-> value, next |-> next]
ValueError == [ok |-> FALSE, value |-> PyNone, next |-> 0]

\* the characters of a text from the i-th piece up to the closing quote
RECURSIVE loads_chars(_, _, _)
loads_chars(text, i, chars) ==
    IF i > Len(text) THEN ValueError
    ELSE IF text[i].t = "quote" THEN Parsed(PyStr(chars), i + 1)
    ELSE IF text[i].t \in {"char", "esc"}
      THEN loads_chars(text, i + 1, Append(chars, text[i].c))
    ELSE ValueError

\* the JSON value that starts at the i-th piece, and the items of a list and
\* the entries of a dict from the i-th piece on
RECURSIVE loads_value(_, _)
RECURSIVE loads_items(_, _, _)
RECURSIVE loads_entries(_, _, _)
loads_items(text, i, items) ==
    LET item == loads_value(text, i)
    IN  IF ~item.ok \/ item.next > Len(text) THEN ValueError
        ELSE IF text[item.next].t = "]"
          THEN Parsed(PyList(Append(items, item.value)), item.next + 1)
        ELSE IF text[item.next].t = ","
          THEN loads_items(text, item.next + 1, Append(items, item.value))
        ELSE ValueError

loads_entries(text, i, entries) ==
    IF i > Len(text) \/ text[i].t # "quote" THEN ValueError
    ELSE LET key == loads_chars(text, i + 1, <<>>)
         IN  IF ~key.ok \/ key.next > Len(text) \/ text[key.next].t # ":"
               THEN ValueError
             ELSE LET item == loads_value(text, key.next + 1)
                      entry == PyEntry(key.value.s, item.value)
                  IN  IF ~item.ok \/ item.next > Len(text) THEN ValueError
                      ELSE IF text[item.next].t = "}"
                        THEN Parsed(PyDict(Append(entries, entry)), item.next + 1)
                      ELSE IF text[item.next].t = ","
                        THEN loads_entries(text, item.next + 1,
                                           Append(entries, entry))
                      ELSE ValueError

loads_value(text, i) ==
    IF i > Len(text) THEN ValueError
    ELSE IF text[i].t = "quote" THEN loads_chars(text, i + 1, <<>>)
    ELSE IF text[i].t = "num" THEN Parsed(PyInt(text[i].n), i + 1)
    ELSE IF text[i].t = "null" THEN Parsed(PyNone, i + 1)
    ELSE IF text[i].t = "["
      THEN IF i < Len(text) /\ text[i + 1].t = "]"
             THEN Parsed(PyList(<<>>), i + 2)
             ELSE loads_items(text, i + 1, <<>>)
    ELSE IF text[i].t = "{"
      THEN IF i < Len(text) /\ text[i + 1].t = "}"
             THEN Parsed(PyDict(<<>>), i + 2)
             ELSE loads_entries(text, i + 1, <<>>)
    ELSE ValueError

\* a decoder content with a value at the start of the text
loads_lenient(text) == loads_value(text, 1)

\* json.loads(jsoned_data), line 46: one value, then nothing but white space
\* (the line break that ends the frame)
loads(text) ==
    LET top == loads_value(text, 1)
    IN  IF top.ok /\ \A i \in top.next..Len(text) : text[i].t = "nl"
          THEN top
          ELSE ValueError

-----------------------------------------------------------------------------
(* control/communication.py: Communication *)

\* a send() that writes the line break first
send_writes_break_first(data) == <<<<NL>>, dumps(data)>>

\* the calls of ser.write in send(), lines 21-25, in order
send_writes(data) == <<dumps(data), <<NL>>>>

\* the line after send()
send(line, data) ==
    LET writes == send_writes(data)
    IN  (line \o writes[1]) \o writes[2]

\* the line breaks on the line
Breaks(line) == Cardinality({i \in 1..Len(line) : line[i].t = "nl"})

\* the line ends in the middle of a frame
Unfinished(line) ==
    IF line = <<>> THEN FALSE ELSE line[Len(line)].t # "nl"

\* the place of the first line break of the line, or 0
FirstBreak(line) ==
    IF \E i \in 1..Len(line) : line[i].t = "nl"
      THEN CHOOSE i \in 1..Len(line) :
             line[i].t = "nl" /\ \A j \in 1..(i - 1) : line[j].t # "nl"
      ELSE 0

\* ser.readline(), line 42: the bytes up to and with the first line break, or
\* all the bytes there are when the timeout ends the read
readline(line) ==
    IF FirstBreak(line) = 0 THEN line ELSE SubSeq(line, 1, FirstBreak(line))

\* what readline() leaves on the line
AfterReadline(line) ==
    IF FirstBreak(line) = 0 THEN <<>>
    ELSE SubSeq(line, FirstBreak(line) + 1, Len(line))

\* receive(), lines 42-49, of what readline() returned: None for nothing
\* read, None for a ValueError of json.loads, else the value
receive(jsoned_data) ==
    IF jsoned_data = <<>> THEN PyNone
    ELSE LET unjsoned_data == loads(jsoned_data)
         IN  IF unjsoned_data.ok THEN unjsoned_data.value ELSE PyNone

\* the record of a call of receive(): whether readline() timed out with
\* nothing read, whether json.loads raised the ValueError that is caught, and
\* the value returned
ReceiveRecord(jsoned_data) ==
    [op |-> "receive",
     timeout |-> (jsoned_data = <<>>),
     error |-> (jsoned_data # <<>> /\ ~loads(jsoned_data).ok),
     value |-> receive(jsoned_data)]

-----------------------------------------------------------------------------
(* Frames on the ground-station link *)

Msg(text) == [text |-> text]
MsgPoint(text, point) == [text |-> text, point |-> point]

RadiusMsg == Msg("Waypoint exceeds max allowed radius of 250m")
MaxAltMsg == Msg("Waypoint exceeds max allowed altitude of 50m")
MinAltMsg == Msg("Waypoint under min allowed altitude of 3m")

-----------------------------------------------------------------------------
(* main.py: create_waypoints *)

\* which branch of lines 64-81 a point takes: "radius", "max_altitude",
\* "min_altitude", or "ok"
\* limits that a point standing exactly on them violates
WaypointVerdictInclusive(start_gps, point) ==
    LET gps_waypoint == [get_location_offset(start_gps, point.y, point.x)
                            EXCEPT !.altitude = point.z]
    IN  IF get_distance_sq(start_gps, gps_waypoint) >= Sq(DM(MAX_RADIUS))
          THEN "radius"
        ELSE IF gps_waypoint.altitude >= DM(MAX_ALTITUDE) THEN "max_altitude"
        ELSE IF gps_waypoint.altitude <= DM(MIN_ALTITUDE) THEN "min_altitude"
        ELSE "ok"

WaypointVerdict(start_gps, point) ==
    LET gps_waypoint == [get_location_offset(start_gps, point.y, point.x)
                            EXCEPT !.altitude = point.z]
    IN  IF get_distance_sq(start_gps, gps_waypoint) > Sq(DM(MAX_RADIUS))
          THEN "radius"
        ELSE IF gps_waypoint.altitude > DM(MAX_ALTITUDE) THEN "max_altitude"
        ELSE IF gps_waypoint.altitude < DM(MIN_ALTITUDE) THEN "min_altitude"
        ELSE "ok"

WaypointLocation(start_gps, point) ==
    gps_reading_to_location_global(
        [get_location_offset(start_gps, point.y, point.x)
            EXCEPT !.altitude = point.z])

\* a report that names the altitude bound for a point beyond the radius
VerdictMsgAltitude(verdict) ==
    IF verdict = "min_altitude" THEN MinAltMsg ELSE MaxAltMsg

VerdictMsg(verdict) ==
    IF verdict = "radius" THEN RadiusMsg
    ELSE IF verdict = "max_altitude" THEN MaxAltMsg
    ELSE MinAltMsg

\* a loop that drops a point outside the limits and goes on with the rest
RECURSIVE create_waypoints_skipping(_, _, _, _)
create_waypoints_skipping(start_gps, plan, i, location_points) ==
    IF i > Len(plan)
      THEN [none |-> FALSE, points |-> location_points, sent |-> <<>>]
    ELSE create_waypoints_skipping(start_gps, plan, i + 1,
             IF WaypointVerdict(start_gps, plan[i]) # "ok"
               THEN location_points
               ELSE Append(location_points,
                           WaypointLocation(start_gps, plan[i])))

\* the for loop of lines 58-82 from the i-th point on, with the points
\* accepted so far; none is TRUE after a return None
RECURSIVE create_waypoints_from(_, _, _, _)
create_waypoints_from(start_gps, plan, i, location_points) ==
    IF i > Len(plan)
      THEN [none |-> FALSE, points |-> location_points, sent |-> <<>>]
    ELSE LET point == plan[i]
             verdict == WaypointVerdict(start_gps, point)
         IN  IF verdict # "ok"
               THEN [none |-> TRUE, points |-> <<>>,
                     sent |-> <<MsgPoint("Waypoint is", point),
                                VerdictMsg(verdict)>>]
             ELSE create_waypoints_from(start_gps, plan, i + 1,
                      Append(location_points,
                             WaypointLocation(start_gps, point)))

create_waypoints(start, plan) ==
    create_waypoints_from(location_global_relative_to_gps_reading(start),
                          plan, 1, <<>>)

-----------------------------------------------------------------------------
(* Inputs *)

OffsetPoint(x, y, z) == [x |-> x, y |-> y, z |-> z]

\* the point whose distance is exactly MAX_RADIUS, at the minimum altitude
WpEdgeLow == OffsetPoint(0, 2497, DM(MIN_ALTITUDE))
\* the same place at the maximum altitude
WpEdgeHigh == OffsetPoint(0, 2497, DM(MAX_ALTITUDE))
\* one unit beyond MAX_RADIUS
WpFar == OffsetPoint(0, 2498, 100)
\* 130 m east reads as 260 m at this latitude; also too high
WpFarHigh == OffsetPoint(1300, 0, DM(MAX_ALTITUDE) + 1)
WpHigh == OffsetPoint(0, 300, DM(MAX_ALTITUDE) + 1)
WpLow == OffsetPoint(0, 300, DM(MIN_ALTITUDE) - 1)

Candidates == {WpEdgeLow, WpEdgeHigh, WpFar, WpFarHigh, WpHigh, WpLow}

\* the flight plans of up to n different points, in any order
PlansUpTo(n) ==
    UNION {{plan \in [1..k -> Candidates] :
                \A i, j \in 1..k : plan[i] = plan[j] => i = j} : k \in 1..n}

Plans == PlansUpTo(MaxPlan)

\* the route flown in Spec, of which the ground station sends the first
\* MaxFlightPlan points or fewer; or it sends a plan that is rejected
Route == <<WpEdgeLow, WpEdgeHigh>>

FlightPlans ==
    {SubSeq(Route, 1, n) : n \in {k \in 1..MaxFlightPlan : k <= Len(Route)}}
    \cup {<<WpFar>>}

\* where the vehicle stands before the flight
Ground == LocationGlobalRelative(0, 0, 0)

\* the positions the vehicle reports in flight: on the ground, over home,
\* over the waypoints, outside the runtime radius, above the runtime ceiling
Places ==
    {Ground,
     LocationGlobalRelative(0, 0, 100),
     LocationGlobalRelative(2500, 0, 100),
     LocationGlobalRelative(2700, 0, 100),
     LocationGlobalRelative(2700, 0, 700),
     LocationGlobalRelative(0, 0, 700)}

\* a flight plan as the ground station encodes it
PlanValue(plan) ==
    PyList([i \in 1..Len(plan) |->
               PyDict(<<PyEntry(<<"x">>, PyInt(plan[i].x)),
                        PyEntry(<<"y">>, PyInt(plan[i].y)),
                        PyEntry(<<"z">>, PyInt(plan[i].z))>>)])

\* what arrives that is no frame: bytes that are no JSON, a frame cut by the
\* read timeout, a frame that never closes, an empty line, a lone quote
CorruptLines ==
    {<<Mark("junk"), NL>>,
     <<Mark("["), Mark("{"), Mark("quote"), Tok("char", "x", 0)>>,
     <<Mark("["), Tok("num", "", 5), NL>>,
     <<Tok("num", "", 5), Mark("junk"), NL>>,
     <<NL>>,
     <<Mark("quote"), NL>>}

\* frames that decode to a value that is not true: null, 0, "", [], {}
EmptyValues == {PyNone, PyInt(0), PyStr(<<>>), PyList(<<>>), PyDict(<<>>)}

\* frames that decode to a value that is no flight plan
StrayValues ==
    {PyInt(5), PyStr(<<"a">>),
     PyDict(<<PyEntry(<<"x">>, PyInt(5))>>),
     PyList(<<PyInt(5)>>),
     PyList(<<PyDict(<<PyEntry(<<"x">>, PyInt(0)), PyEntry(<<"y">>, PyInt(0))>>)>>),
     PyList(<<PyDict(<<PyEntry(<<"x">>, PyInt(0)), PyEntry(<<"y">>, PyInt(0)),
                       PyEntry(<<"z">>, PyStr(<<"a">>))>>)>>)}

\* what the ground station puts on the line while the program waits
GcsLines(plans) ==
    CorruptLines
    \cup {send(<<>>, value) : value \in EmptyValues \cup StrayValues}
    \cup {send(<<>>, PlanValue(plan)) : plan \in plans}

\* what readline() can return while main() waits: nothing, one of these
\* lines, or a line that was cut and went on with the next one
WireLines ==
    {<<>>}
    \cup GcsLines(Plans \cup FlightPlans)
    \cup {cut \o line : cut \in {l \in CorruptLines : Unfinished(l)},
                        line \in {l \in CorruptLines : ~Unfinished(l)}}

\* receive() on each of these lines, worked out once
Received == [jsoned_data \in WireLines |-> ReceiveRecord(jsoned_data)]

\* what the program sends: status texts (plain, with a line break, with a
\* quote, empty), telemetry records, and the records of a flight plan
SendValues ==
    {PyStr(<<>>), PyStr(<<"a">>), PyStr(<<"a", "LF", "x">>),
     PyStr(<<"QUOTE", "a", "BACKSLASH">>),
     PyDict(<<PyEntry(<<"x">>, PyInt(5))>>),
     PyDict(<<PyEntry(<<"x">>, PyInt(5)), PyEntry(<<"t">>, PyStr(<<"a", "LF">>))>>),
     PyDict(<<PyEntry(<<"x", "LF">>, PyInt(0))>>),
     PyList(<<PyDict(<<PyEntry(<<"x">>, PyInt(0)), PyEntry(<<"y">>, PyInt(7)),
                       PyEntry(<<"z">>, PyInt(30))>>),
              PyDict(<<PyEntry(<<"x">>, PyInt(1)), PyEntry(<<"y">>, PyInt(0)),
                       PyEntry(<<"z">>, PyInt(50))>>)>>)}

\* coordinates of origins: small ones, and ones of a size at which the
\* floats are 2 and 4 units apart
GpsCoordinates == {0, Exact - 2, Exact, 0 - Exact, 2 * Exact}

GpsOrigins ==
    {GpsReading(latitude, 0, 0, 0) : latitude \in GpsCoordinates}
    \cup {GpsReading(latitude, latitude, 0, 0) : latitude \in GpsCoordinates}

\* offsets in decimetres, down to the smallest
GpsOffsets == {0 - 447, 0 - 1, 0, 1, 2, 3, 25}

\* what the GPS receiver sends: two GGA sentences with a fix, a GGA
\* sentence without satellite lock, a sentence of another type, and a line
\* that does not parse
Sentences ==
    {Sentence("GGA", "33.19", "-87.51", "85.4", "18:32:36"),
     Sentence("GGA", "33.20", "-87.52", "85.5", "18:32:35"),
     Sentence("GGA", "0.0", "0.0", "None", "None"),
     Sentence("RMC", "33.19", "-87.51", "", "18:32:35"),
     Sentence("corrupt", "", "", "", "")}

Modes == {"STABILIZE", "GUIDED", "LAND"}

\* what a request to the i2c data server comes to
SensorOutcomes == {"reading", "timeout", "nomatch"}

\* the texts float() turns into a number
NumberTexts == {"21.5", "0", "100"}

\* the responses of the data server: none in time, well-formed ones (one with
\* more after the altitude, one whose temperature is no number), and strings
\* that do not match (cut short, two spaces, another case, empty)
Responses ==
    {Response(TRUE, <<>>),
     Response(FALSE, <<"Temperature:", "21.5", "Altitude:", "100">>),
     Response(FALSE, <<"Temperature:", "0", "Altitude:", "100", "m">>),
     Response(FALSE, <<"Temperature:", "abc", "Altitude:", "100">>),
     Response(FALSE, <<"Temperature:", "21.5">>),
     Response(FALSE, <<"Temperature:", "", "21.5", "Altitude:", "100">>),
     Response(FALSE, <<"temperature:", "21.5", "Altitude:", "100">>),
     Response(FALSE, <<>>)}

Terminated == pc \in {"exit0", "exit1", "crashed"}

\* the vehicle is connected and the program runs
Connected == pc \notin {"start", "connect", "exit0", "exit1", "crashed"}

-----------------------------------------------------------------------------
(* controller.py: check_geofence, lines 98-115 up to the call of land() *)

\* a check that compares the altitude first
GeofenceBreachAltitudeFirst(location, home_location, max_distance, max_altitude) ==
    LET current == location_global_relative_to_gps_reading(location)
        home_gps == location_global_relative_to_gps_reading(home_location)
    IN  IF current.altitude > max_altitude THEN "altitude"
        ELSE IF get_distance_sq(home_gps, current) > Sq(max_distance) THEN "distance"
        ELSE "none"

\* what check_geofence reports for a position: the elif makes the altitude
\* comparison run only when the distance comparison failed
GeofenceBreach(location, home_location, max_distance, max_altitude) ==
    LET current == location_global_relative_to_gps_reading(location)
        home_gps == location_global_relative_to_gps_reading(home_location)
    IN  IF get_distance_sq(home_gps, current) > Sq(max_distance) THEN "distance"
        ELSE IF current.altitude > max_altitude THEN "altitude"
        ELSE "none"

\* a check that lands whoever flies the vehicle
GeofenceLandsAnyMode(reported, mode_name) == reported # "none"

\* whether check_geofence goes on to call land(): lines 106 and 113
GeofenceLands(reported, mode_name) ==
    reported # "none" /\ mode_name = "GUIDED"

\* check_geofence called from `ret`, which resumes at `cont` when no landing
\* is forced
check_geofence(max_distance, max_altitude, ret, cont) ==
    LET reported == GeofenceBreach(pos, home, max_distance, max_altitude)
    IN  /\ breach' = reported
        /\ IF GeofenceLands(reported, mode)
             THEN /\ pc' = "land_cmd"
                  /\ landRet' = ret
                  /\ forced' = ret
             ELSE /\ pc' = cont
                  /\ UNCHANGED <<landRet, forced>>

-----------------------------------------------------------------------------
(* main.py: the calls of data_client.read() *)

\* line 131, `if not data_client.read()`: a dictionary is truthy, None is
\* not, and an exception of read() leaves main()
ReadOutcome(response) ==
    LET got == read(response)
    IN  IF got.kind = "data" THEN "reading"
        ELSE IF got.kind = "none" THEN "timeout"
        ELSE "nomatch"

\* package_data, lines 102-103: i2c_data['temperature'] of None raises
\* TypeError, float() of a text that is no number raises ValueError, and an
\* exception of read() goes through
package_data(response) ==
    LET got == read(response)
    IN  IF got.kind = "data" /\ got.data.temperature \in NumberTexts
          THEN "reading"
          ELSE "raise"

-----------------------------------------------------------------------------
(* main.py: main(), lines 125-166 *)

Init ==
    /\ pc = "start"
    /\ sent = <<>>
    /\ frames = 0
    /\ waypoints = <<>>
    /\ start_location = None
    /\ points = <<>>
    /\ home = None
    /\ index = 0
    /\ sleep_time = 0
    /\ gotos = <<>>
    /\ landRet = "none"
    /\ breach = "none"
    /\ forced = "none"
    /\ overrideSeen = FALSE
    /\ mode = "STABILIZE"
    /\ armed = FALSE
    /\ armReq = FALSE
    /\ is_armable \in BOOLEAN
    /\ pos = Ground
    /\ wire = <<>>
    /\ socket = [requests |-> 0, recvs |-> 0]
    /\ ser = <<>>
    /\ call = [op |-> "none"]

\* lines 125-139: the xBee link, then the first read of the data server.  A
\* timeout makes read() return None; a response that does not match makes
\* read() raise (match is None), which nothing catches
Startup ==
    /\ pc = "start"
    /\ \E response \in Responses :
         /\ call' = [op |-> "read", response |-> response, result |-> read(response)]
         /\ \/ /\ ReadOutcome(response) = "reading"
               /\ sent' = sent \o <<Msg("Connected to wireless communication receiver"),
                                    Msg("Starting program, attempting connection to flight controller")>>
               /\ pc' = "connect"
            \/ /\ ReadOutcome(response) = "timeout"
               /\ sent' = sent \o <<Msg("Connected to wireless communication receiver"),
                                    Msg("Can't connect to zmq data server")>>
               /\ pc' = "exit1"
            \/ /\ ReadOutcome(response) = "nomatch"
               /\ sent' = Append(sent, Msg("Connected to wireless communication receiver"))
               /\ pc' = "crashed"
    /\ UNCHANGED <<frames, waypoints, start_location, points, home, index,
                   sleep_time, gotos, landRet, breach, forced, overrideSeen>>
    /\ UNCHANGED <<vehicleVars, armReq, wire, socket, ser>>

\* the keywords Controller.__init__(self, connection_string, baud=None) takes
ControllerKeywords == {"baud"}

\* the keywords of the call Controller(...): those of line 142 as written, and
\* those of the call the rest of main() is written for, with a Controller
\* that takes what line 142 passes
ControllerCalls == {{"baud", "com"}, {"baud"}}

\* Controller(...): the binding of the keywords, then dronekit.connect
Controller(keywords, link) ==
    IF ~(keywords \subseteq ControllerKeywords) THEN "TypeError"
    ELSE IF link THEN "connected"
    ELSE "APIException"

\* lines 137-153: the try block around Controller(...); only
\* dronekit.APIException is caught
Connect ==
    /\ pc = "connect"
    /\ \E outcome \in {Controller(keywords, link) :
                         keywords \in ControllerCalls, link \in BOOLEAN} :
         \/ /\ outcome = "connected"
            /\ sent' = sent \o <<Msg("Connected to flight controller"),
                                 Msg("Waiting to receive flight path from GCS")>>
            /\ pc' = "receive"
         \/ /\ outcome = "APIException"
            /\ sent' = Append(sent, Msg("Could not connect to flight controller."))
            /\ pc' = "exit1"
         \/ /\ outcome = "TypeError"
            /\ pc' = "crashed"
            /\ UNCHANGED sent
    /\ UNCHANGED <<frames, waypoints, start_location, points, home, index,
                   sleep_time, gotos, landRet, breach, forced, overrideSeen>>
    /\ UNCHANGED <<vehicleVars, armReq>>
    /\ UNCHANGED libVars

\* the value of an entry of a dict, None without the key
Lookup(dict, key) ==
    IF \E i \in 1..Len(dict.items) : dict.items[i].s = key
      THEN dict.items[CHOOSE i \in 1..Len(dict.items) :
                        /\ dict.items[i].s = key
                        /\ \A j \in (i + 1)..Len(dict.items) : dict.items[j].s # key
                     ].items[1]
      ELSE PyNone

\* the value is what create_waypoints can walk through: a list of dicts with
\* numbers under x, y and z (lines 58-62 raise on anything else)
IsPlan(value) ==
    /\ value.kind = "list"
    /\ \A i \in 1..Len(value.items) :
         /\ value.items[i].kind = "dict"
         /\ \A key \in {<<"x">>, <<"y">>, <<"z">>} :
              Lookup(value.items[i], key).kind = "int"

\* the points of such a list
ToPlan(value) ==
    [i \in 1..Len(value.items) |->
        [x |-> Lookup(value.items[i], <<"x">>).n,
         y |-> Lookup(value.items[i], <<"y">>).n,
         z |-> Lookup(value.items[i], <<"z">>).n]]

\* lines 154-157: com.receive() until it returns something truthy; a timeout,
\* a corrupt frame and an empty value all leave the loop waiting.  A value
\* that is no list of points makes create_waypoints raise at once (lines
\* 58-62), which nothing catches.  The line is not read again after the
\* loop: what is left on it then is of no consequence and is dropped.
Receive ==
    /\ pc = "receive"
    /\ LET jsoned_data == readline(wire)
           received == Received[jsoned_data].value
       IN  /\ call' = Received[jsoned_data]
           /\ IF Falsy(received)
                THEN /\ wire' = AfterReadline(wire)
                     /\ UNCHANGED <<pc, waypoints>>
              ELSE IF IsPlan(received)
                THEN /\ waypoints' = ToPlan(received)
                     /\ pc' = "create"
                     /\ wire' = <<>>
              ELSE /\ pc' = "crashed"
                   /\ wire' = <<>>
                   /\ UNCHANGED waypoints
    /\ UNCHANGED <<sent, frames, start_location, points, home, index,
                   sleep_time, gotos, landRet, breach, forced, overrideSeen>>
    /\ UNCHANGED <<vehicleVars, armReq, socket, ser>>

\* lines 159-166: create_waypoints and the exit on no points
CreatePoints ==
    /\ pc = "create"
    /\ LET made == create_waypoints(pos, waypoints)
       IN  /\ start_location' = pos
           /\ points' = made.points
           /\ IF made.none \/ made.points = <<>>
                THEN /\ sent' = sent \o made.sent
                                     \o <<Msg("Invalid points received from GCS")>>
                     /\ pc' = "exit1"
                ELSE /\ sent' = sent \o made.sent
                     /\ pc' = "arm_armable"
    /\ UNCHANGED <<frames, waypoints, home, index, sleep_time, gotos, landRet,
                   breach, forced, overrideSeen>>
    /\ UNCHANGED <<vehicleVars, armReq>>
    /\ UNCHANGED libVars

-----------------------------------------------------------------------------
(* controller.py: arm(), lines 49-58 *)

\* lines 49-53: wait for is_armable, then set the mode
ArmWaitArmable ==
    /\ pc = "arm_armable"
    /\ IF is_armable
         THEN /\ mode' = "GUIDED"
              /\ pc' = "arm_armed"
         ELSE UNCHANGED <<pc, mode>>
    /\ UNCHANGED <<sent, frames, waypoints, start_location, points, home,
                   index, sleep_time, gotos, landRet, breach, forced,
                   overrideSeen>>
    /\ UNCHANGED <<armed, is_armable, pos, armReq>>
    /\ UNCHANGED libVars

\* lines 54-58: ask for arming until the vehicle reports armed, then record home
ArmWaitArmed ==
    /\ pc = "arm_armed"
    /\ IF armed
         THEN /\ home' = pos
              /\ pc' = "takeoff"
              /\ UNCHANGED armReq
         ELSE /\ armReq' = TRUE
              /\ UNCHANGED <<pc, home>>
    /\ UNCHANGED <<sent, frames, waypoints, start_location, points, index,
                   sleep_time, gotos, landRet, breach, forced, overrideSeen>>
    /\ UNCHANGED vehicleVars
    /\ UNCHANGED libVars

-----------------------------------------------------------------------------
(* controller.py: takeoff(), lines 65-80 *)

\* lines 65-67: simple_takeoff and the write to home.alt
TakeoffCommand ==
    /\ pc = "takeoff"
    /\ home' = [home EXCEPT !.alt = DM(TAKEOFF_ALTITUDE)]
    /\ pc' = "takeoff_geofence"
    /\ UNCHANGED <<sent, frames, waypoints, start_location, points, index,
                   sleep_time, gotos, landRet, breach, forced, overrideSeen>>
    /\ UNCHANGED <<vehicleVars, armReq>>
    /\ UNCHANGED libVars

\* lines 71-73: one tick of the wait, up to the geofence check
TakeoffGeofence ==
    /\ pc = "takeoff_geofence"
    /\ check_geofence(DM(TAKEOFF_RADIUS), DM(TAKEOFF_ALTITUDE + 10),
                      "takeoff", "takeoff_altitude")
    /\ UNCHANGED <<sent, frames, waypoints, start_location, points, home,
                   index, sleep_time, gotos, overrideSeen>>
    /\ UNCHANGED <<vehicleVars, armReq>>
    /\ UNCHANGED libVars

\* alt >= target_altitude * 0.95
TakeoffReached(location) == location.alt * 100 >= DM(TAKEOFF_ALTITUDE) * 95

\* lines 74-80: the two ways out of the wait; the mode is read only when the
\* altitude test failed
TakeoffAltitude ==
    /\ pc = "takeoff_altitude"
    /\ IF TakeoffReached(pos)
         THEN /\ pc' = "traverse"
              /\ UNCHANGED overrideSeen
         ELSE IF mode # "GUIDED"
           THEN /\ pc' = "traverse"
                /\ overrideSeen' = TRUE
           ELSE /\ pc' = "takeoff_geofence"
                /\ UNCHANGED overrideSeen
    /\ breach' = "none"
    /\ UNCHANGED <<sent, frames, waypoints, start_location, points, home,
                   index, sleep_time, gotos, landRet, forced>>
    /\ UNCHANGED <<vehicleVars, armReq>>
    /\ UNCHANGED libVars

-----------------------------------------------------------------------------
(* main.py: main(), lines 171-212, the traversal *)

\* the end of one pass of the outer for loop: on to the next point, or out
\* of the loop.  The loop variables are dead from here until they are set
\* again, and are reset.
EndWait ==
    /\ pc' = IF index < Len(points) THEN "destination" ELSE "final"
    /\ index' = IF index < Len(points) THEN index ELSE 0
    /\ sleep_time' = 0
    /\ frames' = 0
    /\ breach' = "none"

\* lines 171-179: home joins the points; the traversal is entered in GUIDED
Traverse ==
    /\ pc = "traverse"
    /\ points' = Append(points, home)
    /\ IF mode = "GUIDED"
         THEN /\ pc' = "destination"
              /\ UNCHANGED overrideSeen
         ELSE /\ pc' = "final"
              /\ overrideSeen' = TRUE
    /\ UNCHANGED <<sent, frames, waypoints, start_location, home, index,
                   sleep_time, gotos, landRet, breach, forced>>
    /\ UNCHANGED <<vehicleVars, armReq>>
    /\ UNCHANGED libVars

\* vehicle_control.goto(point), line 186: the target joins the commands issued
goto(issued, point) == Append(issued, point)

\* lines 181-186: the next point of the for loop, the mode check, goto
Destination ==
    /\ pc = "destination"
    /\ LET point == points[index + 1]
       IN  IF mode # "GUIDED"
             THEN /\ sent' = sent \o <<MsgPoint("Destination", point),
                                       Msg("Mode no longer guided")>>
                  /\ pc' = "final"
                  /\ index' = 0
                  /\ overrideSeen' = TRUE
                  /\ UNCHANGED gotos
             ELSE /\ sent' = Append(sent, MsgPoint("Destination", point))
                  /\ gotos' = goto(gotos, point)
                  /\ pc' = "tick"
                  /\ index' = index + 1
                  /\ UNCHANGED overrideSeen
    /\ UNCHANGED <<frames, waypoints, start_location, points, home, sleep_time,
                   landRet, breach, forced>>
    /\ UNCHANGED <<vehicleVars, armReq>>
    /\ UNCHANGED libVars

\* a wait with one more tick than range(60)
BudgetSpentLate(ticks) == ticks > WAIT_TICKS

\* range(60) of line 189 is used up
BudgetSpent(ticks) == ticks >= WAIT_TICKS

\* lines 189-197: the head of the inner for loop, its mode check, and the
\* telemetry frame.  package_data reads the data server: read() returning
\* None (a timeout) makes i2c_data['temperature'] raise, and a response that
\* does not match makes read() itself raise
Tick ==
    /\ pc = "tick"
    /\ IF BudgetSpent(sleep_time)
         THEN /\ EndWait
              /\ UNCHANGED <<sent, overrideSeen>>
         ELSE IF mode # "GUIDED"
           THEN /\ sent' = Append(sent, Msg("Mode no longer guided"))
                /\ overrideSeen' = TRUE
                /\ EndWait
           ELSE /\ \E outcome \in {package_data(response) : response \in Responses} :
                     IF outcome = "reading"
                       THEN /\ frames' = frames + 1
                            /\ pc' = "geofence"
                       ELSE /\ pc' = "crashed"
                            /\ UNCHANGED frames
                /\ UNCHANGED <<sent, index, sleep_time, breach, overrideSeen>>
    /\ UNCHANGED <<waypoints, start_location, points, home, gotos, landRet,
                   forced>>
    /\ UNCHANGED <<vehicleVars, armReq>>
    /\ UNCHANGED libVars

\* line 202
TickGeofence ==
    /\ pc = "geofence"
    /\ check_geofence(DM(MAX_RADIUS + RUNTIME_MARGIN),
                      DM(MAX_ALTITUDE + RUNTIME_MARGIN), "tick", "distance")
    /\ UNCHANGED <<sent, frames, waypoints, start_location, points, home,
                   index, sleep_time, gotos, overrideSeen>>
    /\ UNCHANGED <<vehicleVars, armReq>>
    /\ UNCHANGED libVars

\* a test that also counts the difference in altitude
ReachedLevel(location, point) ==
    get_distance_sq(location_global_relative_to_gps_reading(location),
                    location_global_relative_to_gps_reading(point))
      + Sq(location.alt - point.alt) < Sq(DM(1))

\* distance < 1 of line 207
Reached(location, point) ==
    get_distance_sq(location_global_relative_to_gps_reading(location),
                    location_global_relative_to_gps_reading(point)) < Sq(DM(1))

\* lines 203-212: the waypoint-reached test and the tick's sleep
TickDistance ==
    /\ pc = "distance"
    /\ IF Reached(pos, points[index])
         THEN /\ sent' = Append(sent, Msg("Destination Reached"))
              /\ EndWait
         ELSE /\ sleep_time' = sleep_time + 1
              /\ pc' = "tick"
              /\ breach' = "none"
              /\ UNCHANGED <<sent, index, frames>>
    /\ UNCHANGED <<waypoints, start_location, points, home, gotos, landRet,
                   forced, overrideSeen>>
    /\ UNCHANGED <<vehicleVars, armReq>>
    /\ UNCHANGED libVars

-----------------------------------------------------------------------------
(* main.py: main(), lines 214-226, and controller.py: land() *)

\* lines 215-216
FinalLand ==
    /\ pc = "final"
    /\ IF mode = "GUIDED"
         THEN /\ pc' = "land_cmd"
              /\ landRet' = "main"
         ELSE /\ pc' = "monitor"
              /\ UNCHANGED landRet
    /\ UNCHANGED <<sent, frames, waypoints, start_location, points, home,
                   index, sleep_time, gotos, breach, forced, overrideSeen>>
    /\ UNCHANGED <<vehicleVars, armReq>>
    /\ UNCHANGED libVars

\* controller.py lines 128-129
LandCommand ==
    /\ pc = "land_cmd"
    /\ mode' = "LAND"
    /\ pc' = "land_wait"
    /\ UNCHANGED <<sent, frames, waypoints, start_location, points, home,
                   index, sleep_time, gotos, landRet, breach, forced,
                   overrideSeen>>
    /\ UNCHANGED <<armed, is_armable, pos, armReq>>
    /\ UNCHANGED libVars

\* a land() that takes the takeoff altitude for the ground
LandedEarly(location, is_armed) ==
    location.alt <= DM(TAKEOFF_ALTITUDE) \/ ~is_armed

\* the two breaks of land(), lines 134-139
Landed(location, is_armed) == location.alt < DM(1) \/ ~is_armed

\* where land() returns to
AfterLand(ret) ==
    IF ret = "takeoff" THEN "takeoff_altitude"
    ELSE IF ret = "tick" THEN "distance"
    ELSE "monitor"

\* controller.py lines 130-139: one tick of the wait for the ground
LandWait ==
    /\ pc = "land_wait"
    /\ IF Landed(pos, armed)
         THEN /\ pc' = AfterLand(landRet)
              /\ landRet' = "none"
         ELSE UNCHANGED <<pc, landRet>>
    /\ UNCHANGED <<sent, frames, waypoints, start_location, points, home,
                   index, sleep_time, gotos, breach, forced, overrideSeen>>
    /\ UNCHANGED <<vehicleVars, armReq>>
    /\ UNCHANGED libVars

\* a monitoring loop that, like land(), also ends on the ground
MonitorEndsOnGround(is_armed, location) == ~is_armed \/ location.alt < DM(1)

\* whether the monitoring loop of line 219 ends
MonitorEnds(is_armed, location) == ~is_armed

\* lines 219-226: the monitoring loop and the end of the program
Monitor ==
    /\ pc = "monitor"
    /\ IF MonitorEnds(armed, pos)
         THEN /\ sent' = Append(sent, Msg("Finished program."))
              /\ pc' = "exit0"
         ELSE UNCHANGED <<pc, sent>>
    /\ UNCHANGED <<frames, waypoints, start_location, points, home, index,
                   sleep_time, gotos, landRet, breach, forced, overrideSeen>>
    /\ UNCHANGED <<vehicleVars, armReq>>
    /\ UNCHANGED libVars

-----------------------------------------------------------------------------
(* The vehicle *)

VehicleArmable ==
    /\ Connected
    /\ ~is_armable
    /\ is_armable' = TRUE
    /\ UNCHANGED <<mode, armed, pos, armReq>>
    /\ UNCHANGED progVars
    /\ UNCHANGED libVars

\* the vehicle arms on the program's request
VehicleArms ==
    /\ Connected
    /\ armReq /\ ~armed
    /\ armed' = TRUE
    /\ armReq' = FALSE
    /\ UNCHANGED <<mode, is_armable, pos>>
    /\ UNCHANGED progVars
    /\ UNCHANGED libVars

\* the vehicle disarms: after touchdown, on a timeout, or by the operator
VehicleDisarms ==
    /\ Connected
    /\ armed
    /\ armed' = FALSE
    /\ UNCHANGED <<mode, is_armable, pos, armReq>>
    /\ UNCHANGED progVars
    /\ UNCHANGED libVars

\* the operator, or a failsafe, changes the flight mode
VehicleMode ==
    /\ Connected
    /\ \E m \in Modes \ {mode} : mode' = m
    /\ UNCHANGED <<armed, is_armable, pos, armReq>>
    /\ UNCHANGED progVars
    /\ UNCHANGED libVars

\* the vehicle moves once armed for the flight
VehicleMoves ==
    /\ Connected
    /\ home # None
    /\ \E p \in Places \ {pos} : pos' = p
    /\ UNCHANGED <<mode, armed, is_armable, armReq>>
    /\ UNCHANGED progVars
    /\ UNCHANGED libVars

\* where the vehicle reports to be while it waits on the ground: the reading
\* drifts, or the vehicle is carried, 3 m to the north
GroundPlaces == {Ground, LocationGlobalRelative(30, 0, 0)}

\* the reported position changes before the vehicle is armed
VehicleDrifts ==
    /\ Connected
    /\ home = None
    /\ \E p \in GroundPlaces \ {pos} : pos' = p
    /\ UNCHANGED <<mode, armed, is_armable, armReq>>
    /\ UNCHANGED progVars
    /\ UNCHANGED libVars

-----------------------------------------------------------------------------
(* The ground station *)

\* the ground station writes while the program waits for the flight plan.
\* What it writes behind a frame that ends the wait is never read, and is
\* left out.
GcsWritesFrom(plans) ==
    /\ pc = "receive"
    /\ Breaks(wire) < MaxLines
    /\ Falsy(Received[readline(wire)].value)
    /\ \E line \in GcsLines(plans) :
         /\ Unfinished(wire) => line \in CorruptLines /\ ~Unfinished(line)
         /\ wire' = wire \o line
    /\ UNCHANGED <<progVars, vehicleVars, armReq, socket, ser, call>>

GcsWrites == GcsWritesFrom(FlightPlans)

GcsWritesPlan == GcsWritesFrom(Plans)

-----------------------------------------------------------------------------
(* The library functions called on their own *)

\* I2cDataClient.read(), lines 39-47: one send, one recv, and the outcome
ReadCall ==
    /\ socket.requests < MaxReads
    /\ \E response \in Responses :
         /\ socket' = [requests |-> socket.requests + 1,
                       recvs |-> socket.recvs + 1]
         /\ call' = [op |-> "read", response |-> response,
                     result |-> read(response)]
    /\ UNCHANGED <<progVars, vehicleVars, armReq, wire, ser>>

\* Communication.send(data), lines 21-25
SendCall ==
    /\ pc = "start"
    /\ Breaks(wire) < MaxLines
    /\ \E data \in SendValues :
         /\ wire' = send(wire, data)
         /\ call' = [op |-> "send", data |-> data, writes |-> send_writes(data)]
    /\ UNCHANGED <<progVars, vehicleVars, armReq, socket, ser>>

\* Communication.receive(), lines 42-49
ReceiveCall ==
    /\ pc = "start"
    /\ call' = ReceiveRecord(readline(wire))
    /\ wire' = AfterReadline(wire)
    /\ UNCHANGED <<progVars, vehicleVars, armReq, socket, ser>>

\* bytes that no send() wrote arrive on the line
LineNoise ==
    /\ pc = "start"
    /\ Breaks(wire) < MaxLines
    /\ \E line \in CorruptLines :
         /\ Unfinished(wire) => ~Unfinished(line)
         /\ wire' = wire \o line
    /\ UNCHANGED <<progVars, vehicleVars, armReq, socket, ser, call>>

-----------------------------------------------------------------------------
(* Specifications *)

Vehicle ==
    \/ VehicleArmable \/ VehicleArms \/ VehicleDisarms \/ VehicleMode
    \/ VehicleMoves

Flight ==
    \/ TakeoffCommand \/ TakeoffGeofence \/ TakeoffAltitude \/ Traverse
    \/ Destination \/ Tick \/ TickGeofence \/ TickDistance \/ FinalLand
    \/ LandCommand \/ LandWait \/ Monitor

Program ==
    \/ Startup \/ Connect \/ Receive \/ CreatePoints
    \/ ArmWaitArmable \/ ArmWaitArmed \/ Flight

Next == Program \/ Vehicle \/ GcsWrites

\* the whole program, with flight plans of up to MaxFlightPlan points
Spec == Init /\ [][Next]_vars

\* the same under the scheduler's guarantee that a program that can take a
\* step takes one
FairSpec == Spec /\ WF_vars(Program)

NextPlan ==
    \/ Startup \/ Connect \/ Receive \/ CreatePoints
    \/ ArmWaitArmable \/ ArmWaitArmed
    \/ VehicleArmable \/ VehicleArms \/ VehicleDisarms \/ VehicleMode
    \/ GcsWritesPlan

\* the program up to the end of arm(), with flight plans of up to MaxPlan
\* points
PlanSpec == Init /\ [][NextPlan]_vars

\* gps.py: get_location_offset, then get_relative_from_location of its result
OffsetCall ==
    /\ pc = "start"
    /\ \E origin \in GpsOrigins, north_offset \in GpsOffsets, east_offset \in GpsOffsets :
         LET point == get_location_offset(origin, north_offset, east_offset)
         IN  call' = [op |-> "offset", origin |-> origin,
                      north_offset |-> north_offset, east_offset |-> east_offset,
                      point |-> point,
                      relative |-> get_relative_from_location(origin, point)]
    /\ UNCHANGED <<progVars, vehicleVars, armReq, wire, socket, ser>>

NextDrift ==
    \/ Startup \/ Connect \/ Receive \/ CreatePoints
    \/ ArmWaitArmable \/ ArmWaitArmed
    \/ VehicleArmable \/ VehicleArms \/ VehicleDisarms \/ VehicleMode
    \/ VehicleDrifts
    \/ GcsWrites

\* the program up to the end of arm(), with a vehicle whose reported position
\* changes on the ground
DriftSpec == Init /\ [][NextDrift]_vars

NextLib ==
    \/ ReadCall \/ SendCall \/ ReceiveCall \/ LineNoise

\* the functions of the library modules called on their own, in any order
LibSpec == Init /\ [][NextLib]_vars

\* the GPS receiver sends a sentence
GpsSends ==
    /\ pc = "start"
    /\ Len(ser) < MaxSentences
    /\ \E line \in Sentences : ser' = Append(ser, line)
    /\ UNCHANGED <<progVars, vehicleVars, armReq, wire, socket, call>>

\* Gps.read(), lines 97-113
GpsReadCall ==
    /\ pc = "start"
    /\ LET result == Gps_read(ser)
       IN  /\ call' = [op |-> "gps_read", stream |-> ser, result |-> result]
           /\ ser' = SubSeq(ser, result.consumed + 1, Len(ser))
    /\ UNCHANGED <<progVars, vehicleVars, armReq, wire, socket>>

NextNmea ==
    \/ GpsSends \/ GpsReadCall

\* Gps.read called on what the receiver has sent
NmeaSpec == Init /\ [][NextNmea]_vars

NextGps ==
    \/ OffsetCall

\* the two conversions of gps.py called one after the other
GpsSpec == Init /\ [][NextGps]_vars

-----------------------------------------------------------------------------
(* Properties *)

Last(seq) == seq[Len(seq)]

Texts(seq) == {seq[i].text : i \in 1..Len(seq)}

FinishedMsg == Msg("Finished program.")

\* C1: the program sends "Finished program." and exits with status 0 only in
\* a step of the monitoring loop that reads vehicle.armed as false, whichever
\* way the landing was reached
C1_EndsOnlyAfterDisarm ==
    [][(pc' = "exit0" /\ pc # "exit0") \/ (sent' # sent /\ Last(sent') = FinishedMsg)
          => /\ pc = "monitor"
             /\ ~armed
             /\ pc' = "exit0"
             /\ sent' = Append(sent, FinishedMsg)]_vars

\* C1: a run that ended normally after a landing forced by the geofence
C1_Witness == pc = "exit0" /\ forced = "tick" /\ ~armed

\* a run that ended normally after an operator override
C1_WitnessOverride ==
    pc = "exit0" /\ forced = "none" /\ "Mode no longer guided" \in Texts(sent)

\* a run that ended normally after the whole traversal and main()'s landing
C1_WitnessNormal ==
    /\ pc = "exit0" /\ forced = "none" /\ ~overrideSeen
    /\ Len(gotos) = Len(points)

\* C2: once check_geofence has forced a landing during the traversal, a run
\* in which the vehicle becomes and stays disarmed reaches the normal end of
\* the program, and the monitoring loop ends on nothing but the disarm
C2_ForcedLandingEnds ==
    /\ <>[](~armed) => [](forced = "tick" => <>(pc = "exit0"))
    /\ [][pc = "monitor" /\ pc' # "monitor" => ~armed]_vars

\* what the code does guarantee: such a run ends, normally or with the
\* exception of a failed data-server read
C2_ForcedLandingStops ==
    <>[](~armed) => [](forced = "tick" => <>(pc \in {"exit0", "crashed"}))

\* the limits of lines 39-41 that an offset point violates, from the origin
Violations(origin, point) ==
    LET start_gps == location_global_relative_to_gps_reading(origin)
        candidate == get_location_offset(start_gps, point.y, point.x)
    IN  {bound \in {"radius", "max_altitude", "min_altitude"} :
           \/ bound = "radius"
              /\ get_distance_sq(start_gps, candidate) > Sq(DM(250))
           \/ bound = "max_altitude" /\ point.z > DM(50)
           \/ bound = "min_altitude" /\ point.z < DM(3)}

\* the points of the received plan that violate a limit
BadPoints == {i \in 1..Len(waypoints) : Violations(start_location, waypoints[i]) # {}}

\* arm() has been called
ArmInvoked ==
    pc \notin {"start", "connect", "receive", "create", "exit1", "crashed"}
    \/ armReq \/ home # None

\* C3: validation is fail-closed and precedes arming: with one point of the
\* plan outside a limit no waypoint is returned, the program exits with
\* status 1 and arm() is not called; arm() is called only with every point of
\* the plan validated
C3_FailClosedBeforeArm ==
    /\ ArmInvoked => start_location # None /\ BadPoints = {}
    /\ start_location # None /\ BadPoints # {}
         => points = <<>> /\ pc = "exit1" /\ ~ArmInvoked
    /\ start_location # None /\ BadPoints = {}
         => Len(points) = Len(waypoints) /\ pc # "exit1"

\* C3: a plan whose first point is valid and whose second is not was rejected
\* whole
C3_Witness ==
    /\ pc = "exit1" /\ start_location # None
    /\ Len(waypoints) = 2 /\ BadPoints = {2}
    /\ points = <<>>

\* the place an offset point asks for: its offsets from the origin and its
\* own altitude
Requested(origin, point) ==
    LocationGlobalRelative(
        origin.lat + RoundDiv(point.y * UnitsPerDm[1], UnitsPerDm[2]),
        origin.lon + RoundDiv(point.x * UnitsPerDm[1] * CosLatitude[2],
                              UnitsPerDm[2] * CosLatitude[1]),
        point.z)

\* an offset point that stands exactly on one of the limits
OnLimit(origin, point) ==
    \/ get_distance_sq(location_global_relative_to_gps_reading(origin),
                       location_global_relative_to_gps_reading(
                           Requested(origin, point))) = Sq(DM(250))
    \/ point.z = DM(50)
    \/ point.z = DM(3)

\* C4: create_waypoints rejects a candidate if and only if its distance from
\* the origin is greater than 250 m, or its altitude is greater than 50 m, or
\* its altitude is less than 3 m; a candidate exactly on a limit is accepted,
\* the candidate reported as rejected is the first of the plan beyond a limit,
\* and every accepted candidate is returned at the place it asked for, never
\* moved to a limit
C4_RejectsIffBeyondLimit ==
    (start_location # None /\ pc # "create") =>
        /\ (points = <<>>) <=> (BadPoints # {})
        /\ BadPoints = {} => Len(points) = Len(waypoints)
        /\ \A i \in 1..Len(waypoints) :
             (\E k \in 1..Len(sent) : sent[k] = MsgPoint("Waypoint is", waypoints[i]))
               <=> (i \in BadPoints /\ \A j \in BadPoints : i <= j)
        /\ \A i \in 1..Len(points) :
             points[i] = Requested(start_location, waypoints[i])

\* C4: a plan of two candidates that stand exactly on the radius limit, one at
\* the minimum and one at the maximum altitude, was accepted
C4_Witness ==
    /\ pc = "arm_armable"
    /\ Len(waypoints) = 2 /\ Len(points) = 2
    /\ \A i \in 1..2 :
         /\ get_distance_sq(location_global_relative_to_gps_reading(start_location),
                            location_global_relative_to_gps_reading(points[i]))
              = Sq(DM(250))
         /\ OnLimit(start_location, waypoints[i])
    /\ {points[1].alt, points[2].alt} = {DM(3), DM(50)}

\* the first point of the received plan that violates a limit
FirstBad == CHOOSE i \in BadPoints : \A j \in BadPoints : i <= j

\* the message naming the bound to report for a set of violated bounds
BoundMsg(violated) ==
    IF "radius" \in violated
      THEN Msg("Waypoint exceeds max allowed radius of 250m")
    ELSE IF "max_altitude" \in violated
      THEN Msg("Waypoint exceeds max allowed altitude of 50m")
    ELSE Msg("Waypoint under min allowed altitude of 3m")

BoundMsgs == {RadiusMsg, MaxAltMsg, MinAltMsg}

\* C5: when a plan is rejected the ground station has been sent, by the time
\* the process exits with status 1, the first failing point of the plan and
\* then one message naming one violated bound: the radius if it is violated,
\* else the maximum altitude, else the minimum altitude; no other point and no
\* other bound is reported
C5_RejectionReported ==
    /\ (pc = "exit1" /\ start_location # None) =>
          /\ BadPoints # {}
          /\ Len(sent) >= 3
          /\ SubSeq(sent, Len(sent) - 2, Len(sent))
               = << MsgPoint("Waypoint is", waypoints[FirstBad]),
                    BoundMsg(Violations(start_location, waypoints[FirstBad])),
                    Msg("Invalid points received from GCS") >>
          /\ Cardinality({i \in 1..Len(sent) : sent[i] \in BoundMsgs}) = 1
          /\ Cardinality({i \in 1..Len(sent) : sent[i].text = "Waypoint is"}) = 1
    /\ (start_location # None /\ BadPoints # {}) => pc = "exit1"

\* C5: a plan whose first failing point is both beyond the radius and above
\* the maximum altitude was rejected with the radius message
C5_Witness ==
    /\ pc = "exit1" /\ start_location # None
    /\ Len(waypoints) = 2 /\ FirstBad = 2
    /\ Violations(start_location, waypoints[2]) = {"radius", "max_altitude"}
    /\ sent[Len(sent) - 1] = RadiusMsg

\* the program is in a call of check_geofence
InGeofenceCheck == pc \in {"takeoff_geofence", "geofence"}

\* the limits of the call of check_geofence the program is in, in decimetres:
\* 10 m and 20 m in takeoff(), 260 m and 60 m in the traversal
DistanceLimit == IF pc = "takeoff_geofence" THEN 100 ELSE 2600
AltitudeLimit == IF pc = "takeoff_geofence" THEN 200 ELSE 600

BeyondDistance ==
    (pos.lat - home.lat) * (pos.lat - home.lat)
      + (pos.lon - home.lon) * (pos.lon - home.lon) > DistanceLimit * DistanceLimit

BeyondAltitude == pos.alt > AltitudeLimit

\* what a call of check_geofence reports, for the position it reads
GeofenceReportStep ==
    InGeofenceCheck /\ pc' # pc =>
        /\ BeyondDistance => breach' = "distance"
        /\ (breach' = "altitude") <=> (~BeyondDistance /\ BeyondAltitude)
        /\ (breach' = "none") <=> (~BeyondDistance /\ ~BeyondAltitude)
        /\ pc' = "land_cmd" =>
             landRet' = (IF pc = "geofence" THEN "tick" ELSE "takeoff")

\* land() runs once and returns to the statement after its call
LandReturnStep ==
    pc \in {"land_cmd", "land_wait"} /\ pc' # pc =>
        \/ pc = "land_cmd" /\ pc' = "land_wait"
        \/ pc = "land_wait" /\ landRet = "takeoff" /\ pc' = "takeoff_altitude"
        \/ pc = "land_wait" /\ landRet = "tick" /\ pc' = "distance"
        \/ pc = "land_wait" /\ landRet = "main" /\ pc' = "monitor"

\* C6: in a call of check_geofence with the position beyond both the distance
\* and the altitude limit only the distance breach is reported; an altitude
\* breach is reported only when the distance is within its limit; the call
\* starts at most one land(), after which control does not come back to a
\* second land() of the same call
C6_RadiusBeforeAltitude ==
    [][GeofenceReportStep /\ LandReturnStep]_vars

\* C6: a landing forced in the traversal with the vehicle both 270 m away and
\* 70 m high, reported as a distance breach
C6_Witness ==
    /\ pc = "land_cmd" /\ landRet = "tick"
    /\ breach = "distance"
    /\ pos = LocationGlobalRelative(2700, 0, 700)
    /\ home # None /\ home.lat = 0 /\ home.lon = 0

\* check_geofence under a mode other than GUIDED
OverrideGeofenceStep ==
    InGeofenceCheck /\ pc' # pc /\ mode # "GUIDED" =>
        /\ pc' # "land_cmd"
        /\ mode' = mode
        /\ UNCHANGED <<landRet, forced>>

\* the steps of the program that enter land() and that set the mode
LandEntryStep == pc' = "land_cmd" /\ pc # "land_cmd" => mode = "GUIDED"

ModeSetStep ==
    mode' # mode /\ pc' # pc =>
        \/ pc = "land_cmd" /\ mode' = "LAND"
        \/ pc = "arm_armable" /\ mode' = "GUIDED"

\* C7: a call of check_geofence with the vehicle mode other than GUIDED never
\* calls land() and leaves the mode alone, whatever the position; land() is
\* entered only from a step that read the mode as GUIDED, and the program sets
\* the mode only to LAND in land() and to GUIDED in arm()
C7_NoLandingUnderOverride ==
    [][OverrideGeofenceStep /\ LandEntryStep /\ ModeSetStep]_vars

\* C7: a breach of the traversal geofence was reported under an operator's
\* mode and the program went on without landing
C7_Witness ==
    /\ pc = "distance"
    /\ breach # "none"
    /\ mode = "STABILIZE"
    /\ forced = "none"
    /\ landRet = "none"

\* a breach read in GUIDED mode starts land() in the same pass of the loop,
\* with no goto in between
BreachStep ==
    InGeofenceCheck /\ pc' # pc /\ mode = "GUIDED"
      /\ (BeyondDistance \/ BeyondAltitude)
        => pc' = "land_cmd" /\ gotos' = gotos

\* land() commands the mode LAND first
LandCommandStep ==
    pc = "land_cmd" /\ pc' # pc
        => mode' = "LAND" /\ pc' = "land_wait" /\ gotos' = gotos

\* the process does not end within land()
LandingStaysStep ==
    pc \in {"land_cmd", "land_wait"}
        => pc' \notin {"exit0", "exit1", "crashed"} /\ gotos' = gotos

\* the safety part of C8: a breach read in GUIDED mode, in the takeoff wait or
\* in the traversal, commands the mode LAND before any further goto, and the
\* process does not exit within the landing
C8_LandCommandedOnBreach ==
    [][BreachStep /\ LandCommandStep /\ LandingStaysStep]_vars

\* C8: a breach of the runtime envelope in an autonomous phase commands the
\* mode LAND within the same tick, before any further goto; the process does
\* not exit because of the breach and, the vehicle once down and disarmed,
\* goes on to the monitoring loop
C8_BreachLandsThenMonitors ==
    /\ C8_LandCommandedOnBreach
    /\ <>[](~armed) => [](forced # "none" => <>(pc \in {"monitor", "exit0"}))

\* C9: once the program has observed a mode other than GUIDED, in takeoff()
\* or at a tick of the traversal, it issues no further goto for the rest of
\* the flight, whatever the mode does afterwards
C9_NoGotoAfterOverride ==
    [][overrideSeen => gotos' = gotos]_vars

\* what holds of the code: no goto is issued in a step that reads a mode other
\* than GUIDED, and none after the mode test of line 179 or of line 183 failed
C9_NoGotoUnderOverride ==
    [][(mode # "GUIDED" \/ pc \in {"final", "land_cmd", "land_wait", "monitor"})
          => gotos' = gotos]_vars

\* the program is in the wait on a waypoint
InWait == pc \in {"tick", "geofence", "distance"}
          \/ (pc \in {"land_cmd", "land_wait"} /\ landRet = "tick")

\* the wait on a waypoint runs at most 60 ticks, and the commands issued are
\* the points visited so far, each once and in order
WaitBounded ==
    /\ sleep_time <= 60
    /\ frames <= 60
    /\ Len(gotos) <= Len(points)
    /\ \A i \in 1..Len(gotos) : gotos[i] = points[i]
    /\ \A i, j \in 1..Len(gotos) : gotos[i] = gotos[j] => i = j
    /\ InWait => Len(gotos) = index
    /\ pc = "destination" => Len(gotos) = index /\ index < Len(points)

\* the budget used up, the program goes on to the next point, or to the end
\* of the traversal after the last one, whatever the distance and the mode
BudgetStep ==
    pc = "tick" /\ sleep_time = 60 /\ pc' # pc =>
        /\ pc' = (IF Len(gotos) < Len(points) THEN "destination" ELSE "final")
        /\ sent' = sent
        /\ gotos' = gotos

\* goto is called once at the start of a wait and nowhere else
GotoStep ==
    gotos' # gotos =>
        /\ pc = "destination" /\ pc' = "tick"
        /\ mode = "GUIDED"
        /\ gotos' = Append(gotos, points[Len(gotos) + 1])
        /\ sleep_time' = 0

\* C10: the wait on a waypoint is bounded by 60 ticks; with the target never
\* reached within them the program advances to the next waypoint anyway; goto
\* is issued exactly once for each waypoint visited, never again for the same
\* waypoint
C10_WaitBudget ==
    /\ [](WaitBounded)
    /\ [][BudgetStep /\ GotoStep]_vars

\* C10: the first waypoint was not reached within its budget, in GUIDED mode
\* throughout, and the program has issued the goto of the second point
C10_Witness ==
    /\ pc = "tick" /\ index = 2 /\ sleep_time = 0
    /\ gotos = <<points[1], points[2]>>
    /\ Len(sent) >= 2
    /\ sent[Len(sent) - 1] = MsgPoint("Destination", points[1])
    /\ sent[Len(sent)] = MsgPoint("Destination", points[2])
    /\ ~overrideSeen /\ forced = "none"

\* the telemetry frame of the tick the program is in has been sent: frames
\* counts the frames of this wait and sleep_time its completed ticks
FrameSentThisTick == frames = sleep_time + 1

\* the envelope check of a tick runs before the frame of that tick is sent
EnvelopeCheckStep ==
    pc = "geofence" /\ pc' # pc => ~FrameSentThisTick

\* the frame of a tick is sent once the mode was read as GUIDED, and the
\* distance test is the last step of the tick
TickOrderStep ==
    /\ frames' = frames + 1 => pc = "tick" /\ mode = "GUIDED"
    /\ pc = "distance" /\ pc' # pc => FrameSentThisTick /\ pc' \in {"tick", "destination", "final"}

\* C11: in a tick of the traversal the mode check comes first, then the
\* envelope check, then the telemetry frame, then the waypoint-reached test:
\* the envelope check of a tick is evaluated before that tick's frame is sent
C11_EnvelopeBeforeTelemetry ==
    [][EnvelopeCheckStep /\ TickOrderStep]_vars

\* what holds of the code: the frame of a tick is sent before its envelope
\* check, after the mode check and before the waypoint-reached test
C11_TelemetryBeforeEnvelope ==
    [][(pc = "geofence" /\ pc' # pc => FrameSentThisTick) /\ TickOrderStep]_vars

\* C12: a failed read of the data server in a tick of the traversal is not
\* fatal: the tick goes on to its envelope check (or the wait ends) and the
\* process does not die in the tick
C12_SensorFailureNotFatal ==
    [][pc = "tick" /\ pc' # pc => pc' \in {"geofence", "destination", "final"}]_vars

\* the data string has the form "Temperature: <a> Altitude: <b>"
WellFormed(words) ==
    /\ Len(words) >= 4
    /\ words[1] = "Temperature:" /\ words[3] = "Altitude:"
    /\ words[2] # "" /\ words[4] # ""

\* what a call of read() returned, for the response it met
ReadReported ==
    call.op = "read" =>
        LET response == call.response
            result == call.result
        IN  /\ (~response.timeout /\ WellFormed(response.words))
              => /\ result.kind = "data"
                 /\ result.data = [temperature |-> response.words[2],
                                   altitude |-> response.words[4]]
            /\ response.timeout => result.kind = "none"
            /\ (~response.timeout /\ ~WellFormed(response.words))
              => result.kind = "raise"
            /\ result.kind = "data"
              => ~response.timeout /\ WellFormed(response.words)

\* a call of read() sends one request and waits for one response
ReadStep ==
    call' # call /\ call'.op = "read" =>
        /\ socket'.requests = socket.requests + 1
        /\ socket'.recvs = socket.recvs + 1

WholeFrames ==
    {send(<<>>, value) : value \in EmptyValues \cup StrayValues}
    \cup {send(<<>>, PlanValue(plan)) : plan \in Plans}

\* the first line of the serial line: up to its first line break, or all of it
FirstLine ==
    IF Breaks(wire) = 0 THEN wire
    ELSE SubSeq(wire, 1, CHOOSE i \in 1..Len(wire) :
                           wire[i].t = "nl" /\ Breaks(SubSeq(wire, 1, i)) = 1)

\* a call of receive() in the wait for the flight plan
InReceiveStep ==
    pc = "receive" /\ (pc' # pc \/ call' # call \/ Len(wire') < Len(wire))

\* receive() reads one frame; with nothing read, or a frame that is no JSON
\* text, it returns None and main() goes on waiting, nothing else changed
WaitStep ==
    InReceiveStep =>
        /\ call'.op = "receive"
        /\ pc' = "receive" =>
             wire' = SubSeq(wire, Len(FirstLine) + 1, Len(wire))
        /\ (FirstLine = <<>> \/ FirstLine \notin WholeFrames) =>
             /\ call'.value = PyNone
             /\ pc' = "receive"
             /\ UNCHANGED <<sent, waypoints, start_location, points, home,
                            armReq, vehicleVars>>

\* C14: receive() reads exactly one frame and does not raise on bad input: an
\* empty read returns None and a frame that is no valid JSON returns None; so
\* in main()'s wait for the flight plan timeouts and corrupt frames leave the
\* program waiting, the vehicle not armed and the process not exited
C14_CorruptInputKeepsWaiting ==
    /\ [](pc = "receive" => ~armed /\ ~armReq /\ home = None)
    /\ [][WaitStep]_vars

\* C14: a corrupt frame was read as None with the next line pending, and the
\* program still waits, unarmed
C14_Witness ==
    /\ pc = "receive"
    /\ call.op = "receive" /\ call.error /\ call.value = PyNone
    /\ wire # <<>>
    /\ ~armed /\ home = None

\* what send() wrote: the JSON text of the value, with no line break in it,
\* then one line break, and nothing else
SendWrote ==
    call.op = "send" =>
        /\ Len(call.writes) = 2
        /\ call.writes[2] = <<NL>>
        /\ Breaks(call.writes[1]) = 0
        /\ call.writes[1] # <<>>

\* send() adds what it writes to the end of the line, in that order
SendStep ==
    call'.op = "send" /\ Len(wire') > Len(wire) /\ call' # call =>
        wire' = (wire \o call'.writes[1]) \o call'.writes[2]

\* receive() of the frame send() wrote on an empty line returns the value sent
\* and leaves the line empty
RoundTripStep ==
    (/\ call.op = "send"
     /\ wire = call.writes[1] \o call.writes[2]
     /\ call'.op = "receive")
      => (/\ call'.value = call.data
          /\ ~call'.error /\ ~call'.timeout
          /\ wire' = <<>>)

\* C15: send() writes a message as one frame, the JSON text of the value and
\* then exactly one line break, nothing between or after; receive() of that
\* frame returns a value equal to the one sent, for texts (with line breaks
\* and quotes in them too), records with named fields, and lists of records
C15_SendReceiveRoundTrip ==
    /\ [](SendWrote)
    /\ [][SendStep /\ RoundTripStep]_vars

\* C15: a record with a line break in a text was sent and came back equal
C15_Witness ==
    /\ call.op = "receive" /\ ~call.error
    /\ call.value.kind = "dict" /\ Len(call.value.items) = 2
    /\ "LF" \in {call.value.items[2].items[1].s[i] :
                   i \in 1..Len(call.value.items[2].items[1].s)}
    /\ wire = <<>>

\* the messages that explain a failed start to the ground station
StartupExplanations ==
    {Msg("Can't connect to zmq data server"),
     Msg("Could not connect to flight controller.")}

\* the data server does not answer the first read within the timeout
SensorSilent ==
    /\ pc = "start" /\ pc' # pc
    /\ call'.response.timeout

\* Controller(...) does not return a connected Controller
ConnectFails ==
    /\ pc = "connect"
    /\ pc' \notin {"connect", "receive"}

\* the last thing sent before the end is the explanation, and the end is
\* sys.exit(1)
ExplainedExit ==
    /\ pc' = "exit1"
    /\ Len(sent') > Len(sent)
    /\ sent'[Len(sent')] \in StartupExplanations

\* after a failed start nothing was armed and no flight plan was read
NothingStarted ==
    /\ ~armed /\ ~armReq /\ home = None
    /\ waypoints = <<>>

\* C16: a failure to connect at startup (the data server does not answer the
\* first read, or the connection to the vehicle fails) ends the process with
\* a non-zero status only after a message that explains it was sent to the
\* ground station; the vehicle is not armed and no flight plan is read
C16_StartupFailureExplained ==
    /\ [][SensorSilent \/ ConnectFails => ExplainedExit]_vars
    /\ [](pc \in {"exit1", "crashed"} /\ waypoints = <<>> => NothingStarted)

\* C16: the two failures main() handles (no answer within the timeout,
\* dronekit.APIException) are explained before sys.exit(1)
C16_HandledFailuresExplained ==
    /\ [][(SensorSilent \/ ConnectFails) /\ pc' = "exit1" => ExplainedExit]_vars
    /\ [](pc = "exit1" /\ waypoints = <<>> => NothingStarted)

\* one pass of the second loop of arm() that does not end the wait is the
\* request to arm; the pass that ends it moves on to takeoff()
ArmTick ==
    /\ pc = "arm_armed"
    /\ pc' # pc \/ (armReq' /\ ~armReq)

\* a pass of the loop of takeoff(), from the altitude test on
TakeoffTick == pc = "takeoff_altitude" /\ pc' # pc

\* a pass of the wait for a waypoint
WaypointTick == pc = "tick" /\ pc' # pc

\* C17: in every wait of the flight (for arming, for the takeoff altitude,
\* for a waypoint, for the ground after land) a mode that is no longer GUIDED
\* is seen by the next pass of the loop, which ends the wait; no wait goes on
\* for ever in a mode the operator selected
C17_ModeChangeEndsEveryWait ==
    /\ [][ArmTick /\ mode # "GUIDED" => pc' # "arm_armed"]_vars
    /\ [][TakeoffTick /\ mode # "GUIDED" => pc' = "traverse"]_vars
    /\ [][WaypointTick /\ mode # "GUIDED" => pc' \in {"destination", "final"}]_vars
    /\ ~<>[](pc = "arm_armed" /\ mode = "STABILIZE")
    /\ ~<>[](pc = "land_wait" /\ mode = "STABILIZE")

\* C17: the waits of takeoff() and of the traversal do end on the pass that
\* finds the mode changed
C17_TakeoffAndWaypointWaitsCancel ==
    /\ [][TakeoffTick /\ mode # "GUIDED" => pc' = "traverse"]_vars
    /\ [][WaypointTick /\ mode # "GUIDED" => pc' \in {"destination", "final"}]_vars

\* C17: the wait of land() goes on for ever in the operator's mode
C17_LandWaitCancels == ~<>[](pc = "land_wait" /\ mode = "STABILIZE")

\* C18: the waits of arm(), of takeoff() and of land() end after a bounded
\* number of passes, even when the vehicle never arms, climbs or comes down
\* and the mode stays as it is: none of them goes on for ever
C18_TargetWaitsEnd ==
    /\ ~<>[](pc \in {"arm_armable", "arm_armed"})
    /\ ~<>[](pc \in {"takeoff_geofence", "takeoff_altitude"})
    /\ ~<>[](pc = "land_wait")

\* C19: home is recorded once, when arm() finds the vehicle armed, and no
\* field of it changes from then on
C19_HomeNeverChanges ==
    /\ [][home = None /\ home' # None => pc = "arm_armed" /\ armed /\ home' = pos]_vars
    /\ [][home # None => home' = home]_vars

\* C19: what does hold: home is recorded once, with the vehicle armed; its
\* latitude and longitude never change; its altitude is written once more,
\* by takeoff()
C19_HomePositionFixed ==
    /\ [][home = None /\ home' # None => pc = "arm_armed" /\ armed /\ home' = pos]_vars
    /\ [][home # None =>
            /\ home' # None
            /\ home'.lat = home.lat /\ home'.lon = home.lon
            /\ home'.alt # home.alt => pc = "takeoff"]_vars

\* got is want within a relative tolerance of 1e-6
RelClose(got, want) == Abs(got - want) * 1000000 <= Abs(want)

C21_OneOrigin ==
    home # None => start_location = home

\* C21: what does hold: each of the two is the position the vehicle reported
\* when it was read, the first before arm(), the second at its end
C21_TwoReadings ==
    /\ [][start_location' # start_location => pc = "create" /\ start_location' = pos]_vars
    /\ [][home' # home => pc = "arm_armed" /\ home' = pos]_vars

\* what the limits of the planning, MAX_RADIUS and MAX_ALTITUDE, make of the
\* vehicle's position
BeyondPlanLimits ==
    GeofenceBreach(pos, home, DM(MAX_RADIUS), DM(MAX_ALTITUDE)) # "none"

\* the envelope check of a pass of the loop of takeoff() reports a breach
TakeoffCheckReports ==
    pc = "takeoff_geofence" /\ pc' # pc /\ breach' # "none"

\* the envelope check of a tick of the traversal reports a breach
TickCheckReports ==
    pc = "geofence" /\ pc' # pc /\ breach' # "none"

\* C22: no envelope check of the flight, in takeoff() or in the traversal,
\* reports a breach for a position within the radius and under the ceiling
\* the flight plan was checked against: the limits of the flight are at
\* least as loose as those of the planning
C22_RuntimeLimitsLooser ==
    [][TakeoffCheckReports \/ TickCheckReports => BeyondPlanLimits]_vars

\* C22: the checks of the traversal are that loose
C22_TraversalLimitsLooser ==
    [][TickCheckReports => BeyondPlanLimits]_vars

\* the vehicle reports a position less than 1 m from the point it was sent
\* to, by get_distance
WithinOneMetre ==
    LET lat_diff == pos.lat - points[index].lat
        lon_diff == pos.lon - points[index].lon
    IN  Sq(lat_diff) + Sq(lon_diff) < Sq(DM(1))

\* the wait on the current point ends
WaitEnds == InWait /\ pc' \in {"destination", "final"}

\* the distance test of a tick ends the wait when the vehicle is within 1 m,
\* with the message that the destination is reached and no new command, and
\* goes on with the next tick when it is not
DistanceTestStep ==
    pc = "distance" /\ pc' # pc =>
        IF WithinOneMetre
          THEN /\ WaitEnds
               /\ sent' = Append(sent, Msg("Destination Reached"))
               /\ gotos' = gotos
          ELSE /\ pc' = "tick"
               /\ sleep_time' = sleep_time + 1

\* the wait ends for one of three reasons
WaitEndsStep ==
    WaitEnds =>
        \/ pc = "distance" /\ WithinOneMetre
        \/ pc = "tick" /\ sleep_time >= WAIT_TICKS
        \/ pc = "tick" /\ mode # "GUIDED"

\* C23: the wait on a waypoint ends at the first tick whose distance test
\* finds the vehicle less than 1 m from it, and the program goes on to the
\* next point; the wait ends for no other reason than that test, the tick
\* budget used up, or a mode that is not GUIDED
C23_AdvanceOnlyWhenReached ==
    [][DistanceTestStep /\ WaitEndsStep]_vars

\* C23: the first waypoint was reached, in GUIDED mode, above its altitude,
\* and the program is about to go on to the next point
C23_Witness ==
    /\ pc = "destination" /\ index = 1 /\ mode = "GUIDED"
    /\ gotos = <<points[1]>>
    /\ sent # <<>> /\ sent[Len(sent)] = Msg("Destination Reached")
    /\ pos.lat = points[1].lat /\ pos.lon = points[1].lon
    /\ pos.alt # points[1].alt

\* takeoff() returns
TakeoffReturns ==
    pc \in {"takeoff", "takeoff_geofence", "takeoff_altitude"} /\ pc' = "traverse"

\* takeoff() returns from its altitude test, with the altitude at 95% of the
\* target or with a mode that is not GUIDED
TakeoffReturnStep ==
    TakeoffReturns =>
        /\ pc = "takeoff_altitude"
        /\ TakeoffReached(pos) \/ mode # "GUIDED"

\* takeoff() has returned below the altitude because the mode was not GUIDED,
\* and main() has not gone on to the monitoring loop yet
TakeoffCancelled ==
    /\ overrideSeen /\ gotos = <<>>
    /\ pc \in {"traverse", "final"}

\* from a cancelled takeoff main() goes to the monitoring loop, with no goto
\* and no land()
CancelledTakeoffStep ==
    TakeoffCancelled =>
        /\ pc' \in {"traverse", "final", "monitor"}
        /\ gotos' = gotos

\* C24: takeoff() returns only at a tick that finds the altitude at 95% of
\* the target or more, or the mode not GUIDED; when it returned for the mode,
\* main() issues no goto and no land command and goes straight on to the
\* monitoring loop
C24_CancelledTakeoffGoesToMonitor ==
    [][TakeoffReturnStep /\ CancelledTakeoffStep]_vars

\* C24: the first half holds
C24_TakeoffReturnsOnAltitudeOrMode ==
    [][TakeoffReturnStep]_vars

\* land() returns to its caller
LandReturns == pc = "land_wait" /\ pc' # pc

\* land() returns at a tick that finds the vehicle below 1 m or not armed,
\* and its loop neither sets the mode nor starts the landing again
LandWaitStep ==
    LandReturns =>
        /\ pos.alt < DM(1) \/ ~armed
        /\ pc' # "land_cmd"
        /\ mode' = mode

\* land() sets the mode, to LAND, in its first statement and nowhere else
LandSetsModeStep ==
    /\ pc = "land_cmd" /\ pc' # pc => mode' = "LAND" /\ pc' = "land_wait"
    /\ pc = "land_wait" /\ mode' # mode => pc' = pc

\* C25: land() sets the mode to LAND once, and returns only at a tick that
\* finds the altitude below 1 m or the vehicle not armed: never with the
\* vehicle armed at 1 m or above
C25_LandReturnsOnGroundOrDisarmed ==
    [][LandSetsModeStep /\ LandWaitStep]_vars

\* C25: land() called at the end of the traversal has returned with the
\* vehicle on the ground and still armed
C25_Witness ==
    /\ pc = "monitor" /\ landRet = "none"
    /\ mode = "LAND"
    /\ armed /\ pos.alt < DM(1)
    /\ Len(gotos) = Len(points)

\* main() leaves the connection to the vehicle with a connected Controller,
\* or with the exit that follows dronekit's failure to connect
ConnectReturnsStep ==
    pc = "connect" /\ pc' # pc => pc' \in {"receive", "exit1"}

\* a plan that is not empty and has every point within the limits takes
\* main() into arm()
ValidPlanArmsStep ==
    (/\ pc = "create" /\ pc' # pc
     /\ waypoints # <<>>
     /\ \A i \in 1..Len(waypoints) : Violations(pos, waypoints[i]) = {})
      => pc' = "arm_armable"

\* arm() returns once the vehicle reports armed, and takeoff is commanded
ArmedTakesOffStep ==
    /\ (pc = "arm_armed" /\ pc' # pc => armed /\ pc' = "takeoff")
    /\ (pc = "takeoff" /\ pc' # pc => pc' = "takeoff_geofence")

\* C26: main() gets from the start to the armed vehicle and the takeoff: with
\* the data server answering and the vehicle connecting, Controller(...)
\* returns and main() waits for the plan; a plan that is not empty and within
\* the limits takes it into arm(); once the vehicle reports armed, takeoff is
\* commanded
C26_MainReachesTakeoff ==
    [][ConnectReturnsStep /\ ValidPlanArmsStep /\ ArmedTakesOffStep]_vars

\* C26: past the call of Controller(...), the rest of the way holds
C26_PlanLeadsToTakeoff ==
    [][ValidPlanArmsStep /\ ArmedTakesOffStep]_vars

\* the place of the first GGA sentence of the stream, 0 without one
FirstGGA(stream) ==
    IF \E i \in 1..Len(stream) : stream[i].type = "GGA"
      THEN CHOOSE i \in 1..Len(stream) :
             /\ stream[i].type = "GGA"
             /\ \A j \in 1..(i - 1) : stream[j].type # "GGA"
      ELSE 0

\* the lines among the first n of the stream that do not parse
Unparsable(stream, n) == {i \in 1..n : i <= Len(stream) /\ stream[i].type = "corrupt"}

\* the reading is that of the sentence
ReadingOf(reading, sentence) ==
    /\ reading.latitude = sentence.latitude
    /\ reading.longitude = sentence.longitude
    /\ reading.altitude = sentence.altitude
    /\ reading.time = sentence.timestamp

\* C27: Gps.read returns the reading of the first GGA sentence of the stream:
\* sentences of other types before it are read over, a GGA sentence without
\* satellite lock is returned like any other, and the sentences after the
\* first GGA stay on the line
C27_FirstGGAReturned ==
    call.op = "gps_read" /\ call.result.kind = "reading" =>
        LET first == FirstGGA(call.stream)
        IN  /\ first # 0
            /\ ReadingOf(call.result.reading, call.stream[first])
            /\ call.result.consumed = first

\* every stream whose lines before the first GGA sentence all parse gives a
\* reading
ParsableGivesReading ==
    call.op = "gps_read" /\ FirstGGA(call.stream) # 0
      /\ Unparsable(call.stream, FirstGGA(call.stream)) = {}
        => call.result.kind = "reading"

\* a call that returns a reading leaves on the line what came after the
\* first GGA sentence
ReadLeavesRest ==
    call' # call /\ call'.op = "gps_read" /\ call'.result.kind = "reading" =>
        /\ call'.stream = ser
        /\ ser' = SubSeq(ser, FirstGGA(ser) + 1, Len(ser))

\* C27, with the streams that must give a reading and with what a call
\* leaves on the line
C27_FirstGGA ==
    /\ [](C27_FirstGGAReturned /\ ParsableGivesReading)
    /\ [][ReadLeavesRest]_vars

\* C27: a GGA sentence without lock came after a sentence of another type and
\* before a GGA sentence with a fix: it was returned and the last one left
C27_Witness ==
    /\ call.op = "gps_read" /\ call.result.kind = "reading"
    /\ Len(call.stream) = 3
    /\ call.stream[1].type = "RMC"
    /\ call.stream[2].type = "GGA" /\ call.stream[2].altitude = "None"
    /\ call.stream[3].type = "GGA" /\ call.stream[3].altitude # "None"
    /\ call.result.reading.altitude = "None"
    /\ ser = <<call.stream[3]>>

\* the parse failures before the first GGA sentence: the lines that do not
\* parse and, in a stream without GGA sentence, the reads that time out
FailuresBeforeGGA(stream) ==
    IF FirstGGA(stream) # 0
      THEN Cardinality(Unparsable(stream, FirstGGA(stream)))
      ELSE 4

\* C28: Gps.read raises GpsReadError exactly when a fourth line fails to
\* parse before a GGA sentence was read, on its fourth attempt; with fewer
\* failures before a GGA sentence it returns the reading of that sentence,
\* and never one of a sentence of another type
C28_FourthFailureRaises ==
    call.op = "gps_read" =>
        /\ call.result.kind = "GpsReadError" <=> FailuresBeforeGGA(call.stream) >= 4
        /\ call.result.kind = "GpsReadError" => call.result.attempt = 4
        /\ call.result.kind = "reading" =>
             /\ FailuresBeforeGGA(call.stream) < 4
             /\ \E i \in 1..Len(call.stream) :
                  /\ call.stream[i].type = "GGA"
                  /\ ReadingOf(call.result.reading, call.stream[i])

\* C28: three lines that do not parse, a sentence of another type among them,
\* then a GGA sentence: its reading was returned
C28_Witness ==
    /\ call.op = "gps_read" /\ call.result.kind = "reading"
    /\ Len(call.stream) = 5
    /\ Cardinality(Unparsable(call.stream, 4)) = 3
    /\ \E i \in 1..4 : call.stream[i].type = "RMC"
    /\ call.stream[5].type = "GGA"
    /\ ReadingOf(call.result.reading, call.stream[5])

\* C28: four lines that do not parse came before a GGA sentence, and
\* GpsReadError was raised
C28_WitnessRaised ==
    /\ call.op = "gps_read" /\ call.result.kind = "GpsReadError"
    /\ Len(call.stream) = 5
    /\ Cardinality(Unparsable(call.stream, 4)) = 4
    /\ call.stream[5].type = "GGA"

\* the targets of a flight: the points of the plan, in the order received,
\* as places relative to the start location, then home
PlanTargets ==
    [i \in 1..Len(waypoints) |->
        WaypointLocation(location_global_relative_to_gps_reading(start_location),
                         waypoints[i])] \o <<home>>

\* the commands issued are the first of the targets, each once
GotosArePrefix ==
    gotos # <<>> =>
        /\ home # None
        /\ Len(gotos) <= Len(PlanTargets)
        /\ \A i \in 1..Len(gotos) : gotos[i] = PlanTargets[i]
        /\ \A i, j \in 1..Len(gotos) : gotos[i] = gotos[j] => i = j

\* a command joins the commands issued at their end, and none is taken back
GotoAppendsStep == gotos' # gotos => \E point \in {points[Len(gotos) + 1]} :
                                        gotos' = Append(gotos, point)

\* the last command issued is the one to home, at the takeoff altitude
HomeTargeted ==
    /\ Len(gotos) = Len(waypoints) + 1
    /\ Last(gotos) = home
    /\ Last(gotos).alt = DM(TAKEOFF_ALTITUDE)

\* the traversal is entered in GUIDED mode
TraversalStarts == pc = "traverse" /\ mode = "GUIDED"

\* C29: the goto targets are a prefix of the validated plan, in the order
\* received, followed by home: none is reordered, skipped or visited twice;
\* with the mode GUIDED throughout, the last goto is the one to home at the
\* takeoff altitude
C29_PlanThenHome ==
    /\ [](GotosArePrefix)
    /\ [][GotoAppendsStep]_vars
    /\ TraversalStarts ~> (mode # "GUIDED" \/ HomeTargeted)

\* C29: what does hold: the targets are a prefix of the plan followed by
\* home, and in GUIDED mode throughout the goto to home is issued unless the
\* program has ended on a failed read of the data server
C29_PlanThenHomeUnlessReadFails ==
    /\ [](GotosArePrefix)
    /\ [][GotoAppendsStep]_vars
    /\ TraversalStarts ~> (mode # "GUIDED" \/ HomeTargeted \/ pc = "crashed")

\* C29: a flight in GUIDED mode whose last goto is the one to home
C29_WitnessHome == mode = "GUIDED" /\ HomeTargeted /\ Len(gotos) = 2

\* C29: the program has ended in the wait on the first point, in GUIDED mode
C29_WitnessReadFails ==
    /\ pc = "crashed" /\ mode = "GUIDED"
    /\ Len(gotos) = 1 /\ Len(points) = 2

\* receive() has decoded an empty value, and main() goes on waiting as it
\* does with no message, nothing else changed
EmptyValueWaitsStep ==
    (InReceiveStep /\ ~call'.timeout /\ ~call'.error /\ call'.value \in EmptyValues)
        => /\ pc' = "receive"
           /\ UNCHANGED <<sent, waypoints, start_location, points, home,
                          armReq, vehicleVars>>

\* create_waypoints has given no waypoint, and main() exits with status 1
NoPointsExitsStep ==
    (pc = "create" /\ pc' # pc /\ points' = <<>>) => pc' = "exit1"

\* arm() is called with a flight plan that is not empty, every point of it a
\* waypoint
ArmedOnPlan ==
    ArmInvoked => waypoints # <<>> /\ Len(points) = Len(waypoints)

\* C30: the vehicle is never armed on an empty flight plan: a message decoded
\* as an empty value (empty list, null, 0, empty text) leaves main() waiting
\* like no message, and a plan that gives no waypoints makes main() exit with
\* status 1 before arm()
C30_NeverArmedOnEmptyPlan ==
    /\ [](ArmedOnPlan)
    /\ [](pc = "exit1" => ~ArmInvoked)
    /\ [][EmptyValueWaitsStep /\ NoPointsExitsStep]_vars

\* C30: an empty list was decoded, and the program still waits, unarmed
C30_Witness ==
    /\ pc = "receive"
    /\ call.op = "receive" /\ ~call.error /\ ~call.timeout
    /\ call.value = PyList(<<>>)
    /\ waypoints = <<>> /\ ~armed /\ ~armReq /\ home = None

\* C30: a plan has given no waypoints, and the program has exited with
\* status 1, arm() not called
C30_WitnessNoPoints ==
    /\ pc = "exit1" /\ waypoints # <<>> /\ points = <<>>
    /\ ~armed /\ ~armReq /\ home = None

====
